---------------------------- MODULE Spec2Model ----------------------------
(***************************************************************************)
(* A model of goinmonster's query compiler and execution engine:           *)
(*   - the PostgreSQL value marshaler (placeholder / parameter pairing),   *)
(*   - the SQL converter (ConvertToSelect/Insert/Update/Delete),           *)
(*   - the field collector (CollectFields),                                *)
(*   - the executor (Execute, executeSelectionSet, completeValue).         *)
(*                                                                         *)
(* Conventions.  Go values of type interface{} are tagged tuples:          *)
(*   <<"nil">>, <<"bool", b>>, <<"int", n>>, <<"str", s>>,                 *)
(*   <<"list", seq>>, <<"map", seq of <<key, value>>>>.                    *)
(* A Go map is written as the sequence of its entries in the order the     *)
(* one `range` loop over it visits them; every order is an input.          *)
(* SQL text is a sequence of tokens: <<"kw", s>> for text the code writes  *)
(* itself, <<"id", name>> for a quoted identifier, <<"raw", name>> for an  *)
(* unquoted name, <<"$", n>> for the placeholder $n, <<"lit", v>> for a    *)
(* value rendered into the text by fmt.Sprintf("%v", v), <<"op", k>> for   *)
(* an operator key copied into the text.                                   *)
(***************************************************************************)
EXTENDS Integers, Sequences, FiniteSets, TLC

VARIABLES
    marshaler,   \* the converter's PostgreSQLMarshaler: placeholderCounter, params
    issued,      \* history: the MarshalValue calls since the last Reset, <<value, returned token>>
    conv,        \* one converter call: its inputs, and its result once it has returned
    procs,       \* two requests inside a conversion of the shared sqlConverter
    coll,        \* a document and the selection sets CollectFields returned for it
    exec         \* one request to Executor.Execute: its inputs, its context, its response

(***************************************************************************)
(* Bounds                                                                  *)
(***************************************************************************)
MaxCalls == 3        \* MarshalValue calls between two Resets
MaxFields == 2       \* entries of an insert input / update set map
MaxBinds == 2        \* values one concurrent conversion binds
MaxCollects == 2     \* CollectFields calls on one document

(***************************************************************************)
(* Values                                                                  *)
(***************************************************************************)
Nil == <<"nil">>
VBool(b) == <<"bool", b>>
VInt(n) == <<"int", n>>
VStr(s) == <<"str", s>>
VList(s) == <<"list", s>>
VMap(s) == <<"map", s>>

IsNil(v) == v[1] = "nil"
IsMap(v) == v[1] = "map"
IsList(v) == v[1] = "list"
IsStr(v) == v[1] = "str"
IsBool(v) == v[1] = "bool"

\* the scalar operands the marshaler is driven with
ScalarValues == {Nil, VBool(TRUE), VBool(FALSE), VInt(18), VInt(65), VStr("John")}

(***************************************************************************)
(* Tokens of SQL text                                                      *)
(***************************************************************************)
Kw(s) == <<"kw", s>>
Placeholder(n) == <<"$", n>>
IsPlaceholder(t) == t[1] = "$"

Raw(name) == <<"raw", name>>
Lit(v) == <<"lit", v>>
OpText(k) == <<"op", k>>

\* strings.Join(parts, sep): parts is a sequence of texts, sep a text
RECURSIVE Join(_, _)
Join(parts, sep) ==
    IF Len(parts) = 0 THEN <<>>
    ELSE IF Len(parts) = 1 THEN parts[1]
    ELSE parts[1] \o sep \o Join(Tail(parts), sep)

(***************************************************************************)
(* Names are sequences of characters, so that the case conversions and the *)
(* slicing the converter does on them are computed, not assumed.           *)
(***************************************************************************)
UpperChars == <<"A", "B", "C", "D", "E", "F", "G", "H", "I", "J", "K", "L", "M",
                "N", "O", "P", "Q", "R", "S", "T", "U", "V", "W", "X", "Y", "Z">>
LowerChars == <<"a", "b", "c", "d", "e", "f", "g", "h", "i", "j", "k", "l", "m",
                "n", "o", "p", "q", "r", "s", "t", "u", "v", "w", "x", "y", "z">>

IsUpperChar(r) == \E i \in 1..Len(UpperChars) : UpperChars[i] = r

\* r + 32 for r in 'A'..'Z'
LowerOf(r) == LowerChars[CHOOSE i \in 1..Len(UpperChars) : UpperChars[i] = r]

\* strings.ToLower on ASCII letters
ToLower(s) == [i \in 1..Len(s) |-> IF IsUpperChar(s[i]) THEN LowerOf(s[i]) ELSE s[i]]

\* toSnakeCase: '_' before every upper-case letter but the first character,
\* upper-case letters lowered
RECURSIVE toSnakeCase(_)
toSnakeCase(s) ==
    IF Len(s) = 0 THEN <<>>
    ELSE LET i == Len(s)
             r == s[i]
         IN  toSnakeCase(SubSeq(s, 1, i - 1))
             \o (IF i > 1 /\ IsUpperChar(r) THEN <<"_">> ELSE <<>>)
             \o <<IF IsUpperChar(r) THEN LowerOf(r) ELSE r>>

min(a, b) == IF a < b THEN a ELSE b

(***************************************************************************)
(* dialects.PostgreSQL: the formatting functions the converter uses        *)
(***************************************************************************)
\* strings.ReplaceAll(identifier, `"`, `""`)
RECURSIVE EscapeIdentifier(_)
EscapeIdentifier(s) ==
    IF Len(s) = 0 THEN <<>>
    ELSE (IF s[1] = "\"" THEN <<"\"", "\"">> ELSE <<s[1]>>) \o EscapeIdentifier(Tail(s))

\* `"` + EscapeIdentifier(identifier) + `"`: one quoted-identifier token
QuoteIdentifier(identifier) == <<"id", EscapeIdentifier(identifier)>>

\* ast.JoinType
JoinInner == "JoinInner"
JoinLeft == "JoinLeft"
JoinRight == "JoinRight"
JoinFull == "JoinFull"
JoinCross == "JoinCross"
JoinLateral == "JoinLateral"
JoinLeftLateral == "JoinLeftLateral"

FormatJoinType(joinType) ==
    CASE joinType = JoinInner -> <<Kw("INNER JOIN")>>
      [] joinType = JoinLeft -> <<Kw("LEFT JOIN")>>
      [] joinType = JoinRight -> <<Kw("RIGHT JOIN")>>
      [] joinType = JoinFull -> <<Kw("FULL JOIN")>>
      [] joinType = JoinCross -> <<Kw("CROSS JOIN")>>
      [] joinType = JoinLateral -> <<Kw("CROSS JOIN LATERAL")>>
      [] joinType = JoinLeftLateral -> <<Kw("LEFT JOIN LATERAL")>>
      [] OTHER -> <<>>

\* ast.OrderDirection
OrderAsc == "OrderAsc"
OrderDesc == "OrderDesc"

FormatOrderDirection(dir) == IF dir = OrderAsc THEN Kw("ASC") ELSE Kw("DESC")

\* nullsFirst is "nil", "true" or "false"
FormatNullsOrder(nullsFirst) ==
    IF nullsFirst = "nil" THEN <<>>
    ELSE IF nullsFirst = "true" THEN <<Kw("NULLS FIRST")>>
    ELSE <<Kw("NULLS LAST")>>

(***************************************************************************)
(* marshal.PostgreSQLMarshaler                                             *)
(***************************************************************************)
NewPostgreSQLMarshaler == [placeholderCounter |-> 0, params |-> <<>>]

Reset(m) == [placeholderCounter |-> 0, params |-> <<>>]

Params(m) == m.params

\* NextPlaceholder: m.placeholderCounter++; return "$" + Itoa(counter)
NextPlaceholder(m) ==
    LET c == m.placeholderCounter + 1
    IN  [m |-> [m EXCEPT !.placeholderCounter = c], ret |-> Placeholder(c)]

\* a marshaler that appends the parameter but hands out the counter before the increment
AddParamStale(m, v) ==
    LET m1 == [m EXCEPT !.params = Append(m.params, v)]
    IN  [m |-> [m1 EXCEPT !.placeholderCounter = m.placeholderCounter + 1],
         ret |-> Placeholder(m.placeholderCounter)]

\* AddParam: m.params = append(m.params, v); return m.NextPlaceholder()
AddParam(m, v) ==
    NextPlaceholder([m EXCEPT !.params = Append(m.params, v)])

\* MarshalValue: nil gives the text NULL and binds nothing; every other
\* dynamic type goes through AddParam.
MarshalValue(m, v) ==
    IF IsNil(v) THEN [m |-> m, ret |-> Kw("NULL")]
    ELSE AddParam(m, v)

(***************************************************************************)
(* marshal.WhereClauseBuilder.  A builder is the sequence of its clauses;  *)
(* the marshaler it shares with the converter is threaded beside it:       *)
(* st = [clauses, m].                                                      *)
(***************************************************************************)
NewWhereClauseBuilder == <<>>

\* AddCondition: the operand is marshaled first, whatever the operator;
\* the condition text depends on the operator
AddCondition(st, column, op, value) ==
    LET r == MarshalValue(st.m, value)
        placeholder == r.ret
        condition ==
            CASE op \in {"eq", "="} -> column \o <<Kw("="), placeholder>>
              [] op \in {"neq", "!=", "<>"} -> column \o <<Kw("<>"), placeholder>>
              [] op \in {"gt", ">"} -> column \o <<Kw(">"), placeholder>>
              [] op \in {"gte", ">="} -> column \o <<Kw(">="), placeholder>>
              [] op \in {"lt", "<"} -> column \o <<Kw("<"), placeholder>>
              [] op \in {"lte", "<="} -> column \o <<Kw("<="), placeholder>>
              [] op = "like" -> column \o <<Kw("LIKE"), placeholder>>
              [] op = "ilike" -> column \o <<Kw("ILIKE"), placeholder>>
              [] op = "in" -> column \o <<Kw("= ANY("), placeholder, Kw(")")>>
              [] op \in {"nin", "not_in"} -> column \o <<Kw("<> ALL("), placeholder, Kw(")")>>
              [] op = "is_null" ->
                    IF IsBool(value) /\ value[2]
                    THEN column \o <<Kw("IS NULL")>>
                    ELSE column \o <<Kw("IS NOT NULL")>>
              [] op = "contains" -> column \o <<Kw("@>"), placeholder>>
              [] op = "contained_by" -> column \o <<Kw("<@"), placeholder>>
              [] OTHER -> column \o <<OpText(op), placeholder>>
    IN  [clauses |-> Append(st.clauses, condition), m |-> r.m]

\* AddRaw
AddRaw(clauses, condition) == Append(clauses, condition)

\* Build: the clauses joined with AND, "" when there is none
Build(clauses) ==
    IF Len(clauses) = 0 THEN <<>> ELSE Join(clauses, <<Kw("AND")>>)

\* BuildOr: the clauses joined with OR in one pair of parentheses
BuildOr(clauses) ==
    IF Len(clauses) = 0 THEN <<>>
    ELSE <<Kw("(")>> \o Join(clauses, <<Kw("OR")>>) \o <<Kw(")")>>

(***************************************************************************)
(* marshal.OrderByBuilder: the sequence of its columns                     *)
(***************************************************************************)
\* strings.ToUpper(direction) == "DESC", direction a sequence of characters
IsDescIgnoringCase(direction) == ToLower(direction) = <<"d", "e", "s", "c">>

\* Add: column + " " + dir, dir DESC only when direction is DESC ignoring case
OrderByBuilderAdd(columns, column, direction) ==
    Append(columns, column \o <<IF IsDescIgnoringCase(direction) THEN Kw("DESC") ELSE Kw("ASC")>>)

(***************************************************************************)
(* graph.SQLConverter.  c = [schema, tableMap, columnMap, joinConfig];     *)
(* its marshaler is the variable marshaler.                                *)
(***************************************************************************)
\* MapTypeToTable: c.tableMap[typeName] = tableName
MapTypeToTable(c, typeName, tableName) ==
    [c EXCEPT !.tableMap = (typeName :> tableName) @@ @]

\* MapFieldToColumn: the type's map is made when missing, then
\* c.columnMap[typeName][fieldName] = columnName
MapFieldToColumn(c, typeName, fieldName, columnName) ==
    LET cols == IF typeName \in DOMAIN c.columnMap THEN c.columnMap[typeName]
                ELSE [k \in {} |-> <<>>]
    IN  [c EXCEPT !.columnMap = (typeName :> ((fieldName :> columnName) @@ cols)) @@ @]

\* getTableName
getTableName(c, typeName) ==
    IF typeName \in DOMAIN c.tableMap THEN c.tableMap[typeName]
    ELSE toSnakeCase(typeName)

\* a column lookup that never reads the overrides
getColumnNameSnake(c, typeName, fieldName) == toSnakeCase(fieldName)

\* getColumnName
getColumnName(c, typeName, fieldName) ==
    IF typeName \in DOMAIN c.columnMap /\ fieldName \in DOMAIN c.columnMap[typeName]
    THEN c.columnMap[typeName][fieldName]
    ELSE toSnakeCase(fieldName)

\* convertGraphQLOperator
convertGraphQLOperator(op) ==
    CASE op \in {"_eq", "eq"} -> "="
      [] op \in {"_neq", "neq", "_ne", "ne"} -> "<>"
      [] op \in {"_gt", "gt"} -> ">"
      [] op \in {"_gte", "gte", "_ge", "ge"} -> ">="
      [] op \in {"_lt", "lt"} -> "<"
      [] op \in {"_lte", "lte", "_le", "le"} -> "<="
      [] op \in {"_like", "like"} -> "like"
      [] op \in {"_ilike", "ilike"} -> "ilike"
      [] op \in {"_in", "in"} -> "in"
      [] op \in {"_nin", "nin", "_not_in", "not_in"} -> "nin"
      [] op \in {"_is_null", "is_null", "isNull"} -> "is_null"
      [] op \in {"_contains", "contains"} -> "contains"
      [] op \in {"_contained_by", "contained_by", "containedBy"} -> "contained_by"
      [] OTHER -> op

\* the combinator keys of a filter object
K_and == <<"_", "a", "n", "d">>
K_AND == <<"A", "N", "D">>
K_or == <<"_", "o", "r">>
K_OR == <<"O", "R">>
K_not == <<"_", "n", "o", "t">>
K_NOT == <<"N", "O", "T">>

\* buildWhereFromFilter(filter, tableAlias, builder): filter is the sequence
\* of the map's entries in range order; st = [clauses, m] is the builder and
\* the converter's marshaler.  The helper operators are its inner loops.
RECURSIVE buildWhereFromFilter(_, _, _)
RECURSIVE buildWhereAndLoop(_, _, _)
RECURSIVE buildWhereOrLoop(_, _, _)
RECURSIVE buildWhereOperatorLoop(_, _, _)
RECURSIVE buildWhereAndLoopReversed(_, _, _)

\* for op, operand := range v { builder.AddCondition(column, convert(op), operand) }
buildWhereOperatorLoop(ops, column, st) ==
    IF Len(ops) = 0 THEN st
    ELSE buildWhereOperatorLoop(Tail(ops), column,
             AddCondition(st, column, convertGraphQLOperator(ops[1][1]), ops[1][2]))

\* an _and loop that visits the conditions from the last to the first
buildWhereAndLoopReversed(conditions, tableAlias, st) ==
    IF Len(conditions) = 0 THEN st
    ELSE buildWhereAndLoopReversed(SubSeq(conditions, 1, Len(conditions) - 1), tableAlias,
             IF IsMap(conditions[Len(conditions)])
             THEN buildWhereFromFilter(conditions[Len(conditions)][2], tableAlias, st)
             ELSE st)

\* for _, cond := range conditions { if map: buildWhereFromFilter(cond, alias, builder) }
buildWhereAndLoop(conditions, tableAlias, st) ==
    IF Len(conditions) = 0 THEN st
    ELSE buildWhereAndLoop(Tail(conditions), tableAlias,
             IF IsMap(conditions[1])
             THEN buildWhereFromFilter(conditions[1][2], tableAlias, st)
             ELSE st)

\* an _or loop that adds the conditions of every map to orBuilder itself
buildWhereOrLoopFlat(conditions, tableAlias, st) ==
    buildWhereAndLoop(conditions, tableAlias, st)

\* the _or loop: st.clauses is orBuilder; each map gets a subBuilder of its own
buildWhereOrLoop(conditions, tableAlias, st) ==
    IF Len(conditions) = 0 THEN st
    ELSE buildWhereOrLoop(Tail(conditions), tableAlias,
             IF IsMap(conditions[1])
             THEN LET sub == buildWhereFromFilter(conditions[1][2], tableAlias,
                                 [clauses |-> NewWhereClauseBuilder, m |-> st.m])
                  IN  [clauses |-> AddRaw(st.clauses, Build(sub.clauses)), m |-> sub.m]
             ELSE st)

buildWhereFromFilter(filter, tableAlias, st) ==
    IF Len(filter) = 0 THEN st
    ELSE
      LET key == filter[1][1]
          value == filter[1][2]
          st1 ==
            CASE key \in {K_and, K_AND} ->
                   IF IsList(value) THEN buildWhereAndLoop(value[2], tableAlias, st) ELSE st
              [] key \in {K_or, K_OR} ->
                   IF IsList(value)
                   THEN LET o == buildWhereOrLoop(value[2], tableAlias,
                                     [clauses |-> NewWhereClauseBuilder, m |-> st.m])
                        IN  [clauses |-> AddRaw(st.clauses, BuildOr(o.clauses)), m |-> o.m]
                   ELSE st
              [] key \in {K_not, K_NOT} ->
                   IF IsMap(value)
                   THEN LET sub == buildWhereFromFilter(value[2], tableAlias,
                                       [clauses |-> NewWhereClauseBuilder, m |-> st.m])
                        IN  [clauses |-> AddRaw(st.clauses,
                                            <<Kw("NOT (")>> \o Build(sub.clauses) \o <<Kw(")")>>),
                             m |-> sub.m]
                   ELSE st
              [] OTHER ->
                   LET column == <<Raw(tableAlias), Kw("."), QuoteIdentifier(toSnakeCase(key))>>
                   IN  IF IsMap(value)
                       THEN buildWhereOperatorLoop(value[2], column, st)
                       ELSE AddCondition(st, column, "eq", value)
      IN  buildWhereFromFilter(Tail(filter), tableAlias, st1)

(***************************************************************************)
(* Go maps with string keys given as entry sequences: lookups              *)
(***************************************************************************)
MapHas(entries, key) == \E i \in 1..Len(entries) : entries[i][1] = key
MapGet(entries, key) == entries[CHOOSE i \in 1..Len(entries) : entries[i][1] = key][2]

\* fmt.Sprintf("%v", v): the value rendered as text ("" for the empty string)
Sprint(v) == IF v = <<"str", "">> THEN <<>> ELSE <<Lit(v)>>

(***************************************************************************)
(* Schema: TypeRef is <<"named", name>>, <<"list", elem>> or <<"nilref">>  *)
(***************************************************************************)
RECURSIVE unwrapTypeName(_)
unwrapTypeName(t) ==
    IF t[1] = "nilref" THEN <<>>
    ELSE IF t[1] = "list" THEN unwrapTypeName(t[2])
    ELSE t[2]

\* unwrapFieldType / getFieldTypeName: "" when the type or the field is unknown
unwrapFieldType(typeName, fieldName, schema) ==
    IF typeName \in DOMAIN schema /\ fieldName \in DOMAIN schema[typeName]
    THEN unwrapTypeName(schema[typeName][fieldName])
    ELSE <<>>

(***************************************************************************)
(* SelectionSet / SelectedField.  A nil *SelectionSet is NilSelection.     *)
(***************************************************************************)
NilSelection == [isNil |-> TRUE, Fields |-> <<>>, Typename |-> FALSE]
SelectionOf(fields, typename) == [isNil |-> FALSE, Fields |-> fields, Typename |-> typename]

\* SelectedField.GetName: the alias if set, otherwise the name
GetName(sf) == IF sf.Alias # <<>> THEN sf.Alias ELSE sf.Name

\* SelectedField.HasSelection
HasSelection(sf) == ~sf.Selections.isNil /\ Len(sf.Selections.Fields) > 0

(***************************************************************************)
(* collectColumnsAndJoins                                                  *)
(***************************************************************************)
EmptyJoin ==
    [JoinType |-> JoinInner, TableName |-> <<>>, Alias |-> <<>>, On |-> <<>>,
     SubqueryColumns |-> <<>>, SubqueryWhere |-> <<>>, SubqueryOrderBy |-> <<>>,
     Limit |-> <<>>]

\* the join alias: first character of the response key, "_", first three of the name
JoinAliasOf(field) ==
    SubSeq(GetName(field), 1, 1) \o <<"_">> \o SubSeq(field.Name, 1, min(3, Len(field.Name)))

\* RelationJoin without the lateral subquery of a hasMany relation
RelationJoinPlain(c, typeName, tableAlias, field) ==
    LET joinCfg == c.joinConfig[<<typeName, field.Name>>]
        joinAlias == JoinAliasOf(field)
    IN  [EmptyJoin EXCEPT
           !.JoinType = joinCfg.JoinType,
           !.TableName = <<QuoteIdentifier(joinCfg.TargetTable)>>,
           !.Alias = joinAlias,
           !.On = <<Raw(tableAlias), Kw("."), QuoteIdentifier(joinCfg.SourceColumn),
                    Kw("="),
                    Raw(joinAlias), Kw("."), QuoteIdentifier(joinCfg.TargetColumn)>>]

\* RelationJoin with a lateral subquery for every hasMany relation, selected
\* with nested fields or not
RelationJoinAlwaysLateral(c, typeName, tableAlias, field) ==
    LET joinCfg == c.joinConfig[<<typeName, field.Name>>]
        plain == RelationJoinPlain(c, typeName, tableAlias, field)
    IN  IF joinCfg.RelationType = "hasMany"
        THEN [plain EXCEPT
                !.JoinType = JoinLeftLateral,
                !.SubqueryColumns = <<<<Raw(joinCfg.TargetColumn)>>>>,
                !.SubqueryWhere =
                    <<QuoteIdentifier(joinCfg.TargetColumn), Kw("="),
                      Raw(tableAlias), Kw("."), QuoteIdentifier(joinCfg.SourceColumn)>>,
                !.Limit = IF "limit" \in DOMAIN field.Arguments
                          THEN Sprint(field.Arguments["limit"])
                          ELSE <<>>]
        ELSE plain

\* the body of the loop for one relation field: the join and its columns
RelationJoin(c, typeName, tableAlias, field) ==
    LET joinCfg == c.joinConfig[<<typeName, field.Name>>]
        joinAlias == JoinAliasOf(field)
        base == [EmptyJoin EXCEPT
                   !.JoinType = joinCfg.JoinType,
                   !.TableName = <<QuoteIdentifier(joinCfg.TargetTable)>>,
                   !.Alias = joinAlias,
                   !.On = <<Raw(tableAlias), Kw("."), QuoteIdentifier(joinCfg.SourceColumn),
                            Kw("="),
                            Raw(joinAlias), Kw("."), QuoteIdentifier(joinCfg.TargetColumn)>>]
        nested == unwrapFieldType(typeName, field.Name, c.schema)
        subFields == field.Selections.Fields
    IN  IF joinCfg.RelationType = "hasMany" /\ HasSelection(field)
        THEN [base EXCEPT
                !.JoinType = JoinLeftLateral,
                !.SubqueryColumns =
                    [i \in 1..Len(subFields) |->
                        <<Raw(getColumnName(c, nested, subFields[i].Name))>>],
                !.SubqueryWhere =
                    <<QuoteIdentifier(joinCfg.TargetColumn), Kw("="),
                      Raw(tableAlias), Kw("."), QuoteIdentifier(joinCfg.SourceColumn)>>,
                !.Limit = IF "limit" \in DOMAIN field.Arguments
                          THEN Sprint(field.Arguments["limit"])
                          ELSE <<>>]
        ELSE base

RelationColumns(c, typeName, field) ==
    LET joinAlias == JoinAliasOf(field)
        nested == unwrapFieldType(typeName, field.Name, c.schema)
        subFields == field.Selections.Fields
    IN  IF HasSelection(field)
        THEN [i \in 1..Len(subFields) |->
                <<Raw(joinAlias), Kw("."),
                  QuoteIdentifier(getColumnName(c, nested, subFields[i].Name)),
                  Kw("AS"), Raw(joinAlias \o <<"_">> \o GetName(subFields[i]))>>]
        ELSE <<>>

\* the column of a field that is no relation
ScalarColumn(c, typeName, tableAlias, field) ==
    LET colName == getColumnName(c, typeName, field.Name)
        alias == <<Raw(tableAlias), Kw("."), QuoteIdentifier(colName)>>
    IN  IF field.Alias # <<>> /\ field.Alias # field.Name
        THEN alias \o <<Kw("AS"), QuoteIdentifier(field.Alias)>>
        ELSE alias

RECURSIVE collectLoop(_, _, _, _, _)
collectLoop(c, typeName, tableAlias, fields, acc) ==
    IF Len(fields) = 0 THEN acc
    ELSE
      LET field == fields[1]
          acc1 ==
            IF <<typeName, field.Name>> \in DOMAIN c.joinConfig
            THEN [columns |-> acc.columns \o RelationColumns(c, typeName, field),
                  joins |-> Append(acc.joins, RelationJoin(c, typeName, tableAlias, field))]
            ELSE [columns |-> Append(acc.columns, ScalarColumn(c, typeName, tableAlias, field)),
                  joins |-> acc.joins]
      IN  collectLoop(c, typeName, tableAlias, Tail(fields), acc1)

collectColumnsAndJoins(c, typeName, tableAlias, selections) ==
    IF selections.isNil THEN [columns |-> <<>>, joins |-> <<>>]
    ELSE collectLoop(c, typeName, tableAlias, selections.Fields,
                     [columns |-> <<>>, joins |-> <<>>])

(***************************************************************************)
(* processArguments: args is a function from argument names to values;     *)
(* st = [opts, m]                                                          *)
(***************************************************************************)
\* the where / filter argument: a map gives one AND-joined entry of opts.Where
processWhereArgument(c, args, name, st) ==
    IF name \in DOMAIN args /\ IsMap(args[name])
    THEN LET w == buildWhereFromFilter(args[name][2], st.opts.TableAlias,
                      [clauses |-> NewWhereClauseBuilder, m |-> st.m])
             clause == Build(w.clauses)
         IN  [opts |-> IF clause # <<>>
                       THEN [st.opts EXCEPT !.Where = Append(@, clause)]
                       ELSE st.opts,
              m |-> w.m]
    ELSE st

\* the id shortcut
processIdArgument(args, st) ==
    IF "id" \in DOMAIN args
    THEN LET r == MarshalValue(st.m, args["id"])
         IN  [opts |-> [st.opts EXCEPT !.Where =
                          Append(@, <<Raw(st.opts.TableAlias), Kw(".id ="), r.ret>>)],
              m |-> r.m]
    ELSE st

\* limit / first and offset / skip
processPagination(args, opts) ==
    LET o1 == IF "limit" \in DOMAIN args THEN [opts EXCEPT !.Limit = Sprint(args["limit"])]
              ELSE IF "first" \in DOMAIN args THEN [opts EXCEPT !.Limit = Sprint(args["first"])]
              ELSE opts
    IN  IF "offset" \in DOMAIN args THEN [o1 EXCEPT !.Offset = Sprint(args["offset"])]
        ELSE IF "skip" \in DOMAIN args THEN [o1 EXCEPT !.Offset = Sprint(args["skip"])]
        ELSE o1

\* the orderBy list loop: one OrderByBuilder.Add per entry with a string field
RECURSIVE orderByListLoop(_, _, _)
orderByListLoop(orderBy, tableAlias, columns) ==
    IF Len(orderBy) = 0 THEN columns
    ELSE
      LET o == orderBy[1]
          cols1 ==
            IF IsMap(o) /\ MapHas(o[2], "field") /\ IsStr(MapGet(o[2], "field"))
            THEN LET field == MapGet(o[2], "field")[2]
                     direction ==
                        IF MapHas(o[2], "direction") /\ IsStr(MapGet(o[2], "direction"))
                        THEN MapGet(o[2], "direction")[2]
                        ELSE <<"A", "S", "C">>
                 IN  OrderByBuilderAdd(columns,
                        <<Raw(tableAlias), Kw("."), QuoteIdentifier(toSnakeCase(field))>>,
                        direction)
            ELSE columns
      IN  orderByListLoop(Tail(orderBy), tableAlias, cols1)

processOrderBy(args, opts) ==
    IF "orderBy" \in DOMAIN args /\ IsList(args["orderBy"])
    THEN LET built == orderByListLoop(args["orderBy"][2], opts.TableAlias, <<>>)
         IN  [opts EXCEPT !.OrderBy =
                @ \o [i \in 1..Len(built) |-> [Column |-> built[i], Direction |-> OrderAsc]]]
    ELSE IF "orderBy" \in DOMAIN args /\ IsMap(args["orderBy"])
    THEN LET orderBy == args["orderBy"][2]
         IN  IF MapHas(orderBy, "field") /\ IsStr(MapGet(orderBy, "field"))
             THEN LET field == MapGet(orderBy, "field")[2]
                      direction ==
                         IF /\ MapHas(orderBy, "direction")
                            /\ IsStr(MapGet(orderBy, "direction"))
                            /\ IsDescIgnoringCase(MapGet(orderBy, "direction")[2])
                         THEN OrderDesc
                         ELSE OrderAsc
                  IN  [opts EXCEPT !.OrderBy = Append(@,
                         [Column |-> <<Raw(opts.TableAlias), Kw("."),
                                       QuoteIdentifier(toSnakeCase(field))>>,
                          Direction |-> direction])]
             ELSE opts
    ELSE opts

processArguments(c, args, st) ==
    LET s1 == processWhereArgument(c, args, "where", st)
        s2 == processWhereArgument(c, args, "filter", s1)
        s3 == processIdArgument(args, s2)
    IN  [opts |-> processOrderBy(args, processPagination(args, s3.opts)), m |-> s3.m]

(***************************************************************************)
(* dialecttypes.PostgreSQLSelectOptions and its Validate                   *)
(***************************************************************************)
EmptySelectOptions ==
    [TableName |-> <<>>, TableAlias |-> <<>>, Columns |-> <<>>, DistinctOn |-> <<>>,
     Joins |-> <<>>, Where |-> <<>>, GroupBy |-> <<>>, Having |-> <<>>,
     OrderBy |-> <<>>, NullsFirst |-> "nil", Limit |-> <<>>, Offset |-> <<>>,
     ForUpdate |-> FALSE, ForUpdateOf |-> <<>>]

ValidationError(field, message) == [Field |-> field, Message |-> message]

\* Validate comparing only the first DISTINCT ON column with ORDER BY
ValidateFirstColumn(o) ==
    (IF Len(o.DistinctOn) > 0 /\ Len(o.GroupBy) > 0
     THEN <<ValidationError("DistinctOn/GroupBy",
              "DISTINCT ON and GROUP BY should not be used together; they serve similar purposes")>>
     ELSE <<>>)
    \o
    (IF /\ Len(o.DistinctOn) > 0 /\ Len(o.OrderBy) > 0
        /\ o.OrderBy[1].Column # o.DistinctOn[1]
     THEN <<ValidationError("DistinctOn/OrderBy",
              "ORDER BY must start with DISTINCT ON columns in the same order")>>
     ELSE <<>>)
    \o
    (IF /\ o.ForUpdate /\ Len(o.ForUpdateOf) = 0
        /\ \E i \in 1..Len(o.Joins) : o.Joins[i].JoinType \in {JoinLeft, JoinRight, JoinFull}
     THEN <<ValidationError("ForUpdate/Join",
              "FOR UPDATE is not recommended with LEFT/RIGHT/FULL OUTER JOINs; consider using FOR UPDATE OF specific_table")>>
     ELSE <<>>)
    \o
    (IF Len(o.Having) > 0 /\ Len(o.GroupBy) = 0
     THEN <<ValidationError("Having", "HAVING clause requires GROUP BY")>>
     ELSE <<>>)
    \o
    (IF Len(o.Having) > 0 /\ \E i \in 1..Len(o.Joins) : o.Joins[i].JoinType = JoinLeft
     THEN <<ValidationError("Join/Having",
              "LEFT JOIN with HAVING on joined table aggregates may indicate INNER JOIN is more appropriate")>>
     ELSE <<>>)

Validate(o) ==
    (IF Len(o.DistinctOn) > 0 /\ Len(o.GroupBy) > 0
     THEN <<ValidationError("DistinctOn/GroupBy",
              "DISTINCT ON and GROUP BY should not be used together; they serve similar purposes")>>
     ELSE <<>>)
    \o
    (IF /\ Len(o.DistinctOn) > 0 /\ Len(o.OrderBy) > 0
        /\ \E i \in 1..Len(o.DistinctOn) :
              i > Len(o.OrderBy) \/ o.OrderBy[i].Column # o.DistinctOn[i]
     THEN <<ValidationError("DistinctOn/OrderBy",
              "ORDER BY must start with DISTINCT ON columns in the same order")>>
     ELSE <<>>)
    \o
    (IF /\ o.ForUpdate /\ Len(o.ForUpdateOf) = 0
        /\ \E i \in 1..Len(o.Joins) : o.Joins[i].JoinType \in {JoinLeft, JoinRight, JoinFull}
     THEN <<ValidationError("ForUpdate/Join",
              "FOR UPDATE is not recommended with LEFT/RIGHT/FULL OUTER JOINs; consider using FOR UPDATE OF specific_table")>>
     ELSE <<>>)
    \o
    (IF Len(o.Having) > 0 /\ Len(o.GroupBy) = 0
     THEN <<ValidationError("Having", "HAVING clause requires GROUP BY")>>
     ELSE <<>>)
    \o
    (IF Len(o.Having) > 0 /\ \E i \in 1..Len(o.Joins) : o.Joins[i].JoinType = JoinLeft
     THEN <<ValidationError("Join/Having",
              "LEFT JOIN with HAVING on joined table aggregates may indicate INNER JOIN is more appropriate")>>
     ELSE <<>>)

(***************************************************************************)
(* dialects.PostgreSQL builders.  Line breaks and blanks are not tokens.   *)
(***************************************************************************)
\* a JOIN clause that never renders the subquery
BuildJoinPlain(j) ==
    FormatJoinType(j.JoinType) \o j.TableName
    \o (IF j.Alias # <<>> THEN <<Raw(j.Alias)>> ELSE <<>>)
    \o (IF j.On # <<>> THEN <<Kw("ON")>> \o j.On ELSE <<>>)

\* one JOIN clause of BuildSelect
BuildJoin(j) ==
    LET isLateralSubquery ==
            j.Limit # <<>> \/ Len(j.SubqueryColumns) > 0
            \/ j.SubqueryWhere # <<>> \/ j.SubqueryOrderBy # <<>>
        alias == IF j.Alias # <<>> THEN <<Raw(j.Alias)>> ELSE <<>>
    IN  FormatJoinType(j.JoinType)
        \o (IF isLateralSubquery
            THEN <<Kw("("), Kw("SELECT")>>
                 \o (IF Len(j.SubqueryColumns) > 0
                     THEN Join(j.SubqueryColumns, <<Kw(",")>>)
                     ELSE <<Kw("*")>>)
                 \o <<Kw("FROM")>> \o j.TableName
                 \o (IF j.SubqueryWhere # <<>> THEN <<Kw("WHERE")>> \o j.SubqueryWhere ELSE <<>>)
                 \o (IF j.SubqueryOrderBy # <<>>
                     THEN <<Kw("ORDER BY")>> \o j.SubqueryOrderBy ELSE <<>>)
                 \o (IF j.Limit # <<>> THEN <<Kw("LIMIT")>> \o j.Limit ELSE <<>>)
                 \o <<Kw(")")>> \o alias
            ELSE j.TableName \o alias)
        \o (IF j.On # <<>> THEN <<Kw("ON")>> \o j.On ELSE <<>>)

RECURSIVE BuildJoins(_)
BuildJoins(joins) ==
    IF Len(joins) = 0 THEN <<>> ELSE BuildJoin(joins[1]) \o BuildJoins(Tail(joins))

\* the text BuildSelect assembles
BuildSelectText(opts) ==
    <<Kw("SELECT")>>
    \o (IF Len(opts.DistinctOn) > 0
        THEN <<Kw("DISTINCT ON (")>> \o Join(opts.DistinctOn, <<Kw(",")>>) \o <<Kw(")")>>
        ELSE <<>>)
    \o (IF Len(opts.Columns) > 0 THEN Join(opts.Columns, <<Kw(",")>>) ELSE <<Kw("*")>>)
    \o <<Kw("FROM")>> \o opts.TableName
    \o (IF opts.TableAlias # <<>> THEN <<Raw(opts.TableAlias)>> ELSE <<>>)
    \o BuildJoins(opts.Joins)
    \o (IF Len(opts.Where) > 0 THEN <<Kw("WHERE")>> \o Join(opts.Where, <<Kw("AND")>>) ELSE <<>>)
    \o (IF Len(opts.GroupBy) > 0
        THEN <<Kw("GROUP BY")>> \o Join(opts.GroupBy, <<Kw(",")>>) ELSE <<>>)
    \o (IF Len(opts.Having) > 0
        THEN <<Kw("HAVING")>> \o Join(opts.Having, <<Kw("AND")>>) ELSE <<>>)
    \o (IF Len(opts.OrderBy) > 0
        THEN <<Kw("ORDER BY")>>
             \o Join([i \in 1..Len(opts.OrderBy) |->
                        opts.OrderBy[i].Column
                        \o <<FormatOrderDirection(opts.OrderBy[i].Direction)>>],
                     <<Kw(",")>>)
             \o (IF opts.NullsFirst # "nil" THEN FormatNullsOrder(opts.NullsFirst) ELSE <<>>)
        ELSE <<>>)
    \o (IF opts.Limit # <<>> THEN <<Kw("LIMIT")>> \o opts.Limit ELSE <<>>)
    \o (IF opts.Offset # <<>> THEN <<Kw("OFFSET")>> \o opts.Offset ELSE <<>>)
    \o (IF opts.ForUpdate
        THEN <<Kw("FOR UPDATE")>>
             \o (IF Len(opts.ForUpdateOf) > 0
                 THEN <<Kw("OF")>> \o Join(opts.ForUpdateOf, <<Kw(",")>>) ELSE <<>>)
        ELSE <<>>)

\* BuildSelect giving no text when Validate has findings
BuildSelectBlocking(opts) ==
    [query |-> IF Len(Validate(opts)) = 0 THEN BuildSelectText(opts) ELSE <<>>,
     errors |-> Validate(opts)]

\* BuildSelect: the text and the findings of Validate
BuildSelect(opts) == [query |-> BuildSelectText(opts), errors |-> Validate(opts)]

\* BuildInsert (no ON CONFLICT: the converter never sets it)
BuildInsert(opts) ==
    <<Kw("INSERT INTO")>> \o opts.TableName
    \o (IF Len(opts.Columns) > 0
        THEN <<Kw("(")>> \o Join(opts.Columns, <<Kw(",")>>) \o <<Kw(")")>>
        ELSE <<>>)
    \o <<Kw("VALUES")>>
    \o Join([i \in 1..Len(opts.Values) |->
               <<Kw("(")>> \o Join(opts.Values[i], <<Kw(",")>>) \o <<Kw(")")>>],
            <<Kw(",")>>)
    \o (IF Len(opts.Returning) > 0
        THEN <<Kw("RETURNING")>> \o Join(opts.Returning, <<Kw(",")>>) ELSE <<>>)

\* BuildUpdate pairing the i-th column visited with the value of the i-th from last
BuildUpdateReversed(opts, setOrder) ==
    <<Kw("UPDATE")>> \o opts.TableName
    \o (IF opts.TableAlias # <<>> THEN <<Raw(opts.TableAlias)>> ELSE <<>>)
    \o <<Kw("SET")>>
    \o Join([i \in 1..Len(setOrder) |->
               <<setOrder[i], Kw("=")>> \o opts.Set[setOrder[Len(setOrder) + 1 - i]]],
            <<Kw(",")>>)
    \o (IF Len(opts.Where) > 0 THEN <<Kw("WHERE")>> \o Join(opts.Where, <<Kw("AND")>>) ELSE <<>>)
    \o (IF Len(opts.Returning) > 0
        THEN <<Kw("RETURNING")>> \o Join(opts.Returning, <<Kw(",")>>) ELSE <<>>)

\* BuildUpdate: opts.Set is a map from column to value text; setOrder is the
\* order in which `range opts.Set` visits its columns
BuildUpdate(opts, setOrder) ==
    <<Kw("UPDATE")>> \o opts.TableName
    \o (IF opts.TableAlias # <<>> THEN <<Raw(opts.TableAlias)>> ELSE <<>>)
    \o <<Kw("SET")>>
    \o Join([i \in 1..Len(setOrder) |-> <<setOrder[i], Kw("=")>> \o opts.Set[setOrder[i]]],
            <<Kw(",")>>)
    \o (IF Len(opts.Where) > 0 THEN <<Kw("WHERE")>> \o Join(opts.Where, <<Kw("AND")>>) ELSE <<>>)
    \o (IF Len(opts.Returning) > 0
        THEN <<Kw("RETURNING")>> \o Join(opts.Returning, <<Kw(",")>>) ELSE <<>>)

\* BuildDelete (no USING: the converter never sets it)
BuildDelete(opts) ==
    <<Kw("DELETE FROM")>> \o opts.TableName
    \o (IF opts.TableAlias # <<>> THEN <<Raw(opts.TableAlias)>> ELSE <<>>)
    \o (IF Len(opts.Where) > 0 THEN <<Kw("WHERE")>> \o Join(opts.Where, <<Kw("AND")>>) ELSE <<>>)
    \o (IF Len(opts.Returning) > 0
        THEN <<Kw("RETURNING")>> \o Join(opts.Returning, <<Kw(",")>>) ELSE <<>>)

(***************************************************************************)
(* The converter's entry points.  Each takes the converter's marshaler m   *)
(* and returns the result together with the marshaler it leaves behind.    *)
(***************************************************************************)
\* ConvertToSelect(info): info = [ReturnType, Selection, Arguments]
ConvertToSelect(c, m, info) ==
    LET m0 == Reset(m)
    IN  IF info.ReturnType[1] = "nilref"
        THEN [ok |-> FALSE, Query |-> <<>>, Params |-> <<>>, Errors |-> <<>>, m |-> m0,
              Options |-> EmptySelectOptions]
        ELSE
          LET typeName == unwrapTypeName(info.ReturnType)
              tableName == getTableName(c, typeName)
              tableAlias == ToLower(SubSeq(typeName, 1, 1))
              cj == collectColumnsAndJoins(c, typeName, tableAlias, info.Selection)
              opts == [EmptySelectOptions EXCEPT
                         !.TableName = <<QuoteIdentifier(tableName)>>,
                         !.TableAlias = tableAlias,
                         !.Columns = cj.columns,
                         !.Joins = cj.joins]
              st == processArguments(c, info.Arguments, [opts |-> opts, m |-> m0])
              built == BuildSelect(st.opts)
          IN  [ok |-> TRUE, Query |-> built.query, Params |-> Params(st.m),
               Errors |-> built.errors, m |-> st.m, Options |-> st.opts]

\* for field, value := range input { columns += column; values += MarshalValue(value) }
RECURSIVE insertLoop(_, _, _, _)
insertLoop(c, typeName, input, acc) ==
    IF Len(input) = 0 THEN acc
    ELSE LET r == MarshalValue(acc.m, input[1][2])
         IN  insertLoop(c, typeName, Tail(input),
                 [columns |-> Append(acc.columns,
                                  <<QuoteIdentifier(getColumnName(c, typeName, input[1][1]))>>),
                  values |-> Append(acc.values, <<r.ret>>),
                  m |-> r.m])

\* the RETURNING columns
returningCols(c, typeName, returning) ==
    [i \in 1..Len(returning) |-> <<QuoteIdentifier(getColumnName(c, typeName, returning[i]))>>]

\* ConvertToInsert(typeName, input, returning): input in range order
ConvertToInsert(c, m, typeName, input, returning) ==
    LET l == insertLoop(c, typeName, input,
                 [columns |-> <<>>, values |-> <<>>, m |-> Reset(m)])
        opts == [TableName |-> <<QuoteIdentifier(getTableName(c, typeName))>>,
                 Columns |-> l.columns,
                 Values |-> <<l.values>>,
                 Returning |-> returningCols(c, typeName, returning)]
    IN  [ok |-> TRUE, Query |-> BuildInsert(opts), Params |-> Params(l.m),
         Errors |-> <<>>, m |-> l.m]

\* for field, value := range set { setMap[column] = MarshalValue(value) }:
\* a later field of the same column replaces the earlier one's text
RECURSIVE setLoop(_, _, _, _)
setLoop(c, typeName, set, acc) ==
    IF Len(set) = 0 THEN acc
    ELSE LET r == MarshalValue(acc.m, set[1][2])
             col == QuoteIdentifier(getColumnName(c, typeName, set[1][1]))
         IN  setLoop(c, typeName, Tail(set),
                 [setMap |-> [k \in DOMAIN acc.setMap \cup {col} |->
                                 IF k = col THEN <<r.ret>> ELSE acc.setMap[k]],
                  m |-> r.m])

\* the part of ConvertToUpdate before BuildUpdate: the options and the marshaler
UpdateOptions(c, m, typeName, where, set, returning) ==
    LET tableAlias == ToLower(SubSeq(typeName, 1, 1))
        l == setLoop(c, typeName, set, [setMap |-> [k \in {} |-> <<>>], m |-> Reset(m)])
        w == buildWhereFromFilter(where, tableAlias,
                 [clauses |-> NewWhereClauseBuilder, m |-> l.m])
    IN  [opts |-> [TableName |-> <<QuoteIdentifier(getTableName(c, typeName))>>,
                   TableAlias |-> tableAlias,
                   Set |-> l.setMap,
                   Where |-> <<Build(w.clauses)>>,
                   Returning |-> returningCols(c, typeName, returning)],
         m |-> w.m]

\* ConvertToUpdate(typeName, where, set, returning); setOrder is the order in
\* which BuildUpdate's range visits the columns of setMap
ConvertToUpdate(c, m, typeName, where, set, returning, setOrder) ==
    LET u == UpdateOptions(c, m, typeName, where, set, returning)
    IN  [ok |-> TRUE, Query |-> BuildUpdate(u.opts, setOrder), Params |-> Params(u.m),
         Errors |-> <<>>, m |-> u.m]

\* ConvertToDelete(typeName, where, returning)
ConvertToDelete(c, m, typeName, where, returning) ==
    LET tableAlias == ToLower(SubSeq(typeName, 1, 1))
        w == buildWhereFromFilter(where, tableAlias,
                 [clauses |-> NewWhereClauseBuilder, m |-> Reset(m)])
        opts == [TableName |-> <<QuoteIdentifier(getTableName(c, typeName))>>,
                 TableAlias |-> tableAlias,
                 Where |-> <<Build(w.clauses)>>,
                 Returning |-> returningCols(c, typeName, returning)]
    IN  [ok |-> TRUE, Query |-> BuildDelete(opts), Params |-> Params(w.m),
         Errors |-> <<>>, m |-> w.m]

(***************************************************************************)
(* The schema and the converter the conversions are driven with: the       *)
(* package-level sqlConverter of the resolvers.                            *)
(***************************************************************************)
n_User == <<"U", "s", "e", "r">>
n_Post == <<"P", "o", "s", "t">>
n_ID == <<"I", "D">>
n_String == <<"S", "t", "r", "i", "n", "g">>
n_id == <<"i", "d">>
n_name == <<"n", "a", "m", "e">>
n_age == <<"a", "g", "e">>
n_userName == <<"u", "s", "e", "r", "N", "a", "m", "e">>
n_user_name == <<"u", "s", "e", "r", "_", "n", "a", "m", "e">>
n_posts == <<"p", "o", "s", "t", "s">>
n_title == <<"t", "i", "t", "l", "e">>
n_users == <<"u", "s", "e", "r", "s">>
n_user_id == <<"u", "s", "e", "r", "_", "i", "d">>

Named(name) == <<"named", name>>
ListOf(elem) == <<"list", elem>>
NilTypeRef == <<"nilref">>

n_Query == <<"Q", "u", "e", "r", "y">>
n_Mutation == <<"M", "u", "t", "a", "t", "i", "o", "n">>
n_Subscription == <<"S", "u", "b", "s", "c", "r", "i", "p", "t", "i", "o", "n">>
n_Node == <<"N", "o", "d", "e">>
n_Profile == <<"P", "r", "o", "f", "i", "l", "e">>
n_user == <<"u", "s", "e", "r">>
n_profile == <<"p", "r", "o", "f", "i", "l", "e">>
n_bio == <<"b", "i", "o">>
n_avatar == <<"a", "v", "a", "t", "a", "r">>
n_typename == <<"_", "_", "t", "y", "p", "e", "n", "a", "m", "e">>

\* Schema.typeMap: type name -> field name -> TypeRef
Schema ==
    (n_Query :> (n_users :> ListOf(Named(n_User)) @@ n_user :> Named(n_User)))
    @@ (n_User :> (n_id :> Named(n_ID) @@ n_name :> Named(n_String)
                   @@ n_userName :> Named(n_String) @@ n_posts :> ListOf(Named(n_Post))
                   @@ n_profile :> Named(n_Profile)))
    @@ (n_Profile :> (n_bio :> Named(n_String) @@ n_avatar :> Named(n_String)))
    @@ (n_Post :> (n_id :> Named(n_ID) @@ n_title :> Named(n_String)))

\* ObjectType.Implements of every type of the schema
Implements ==
    (n_Query :> <<>>) @@ (n_User :> <<n_Node>>) @@ (n_Profile :> <<>>)
    @@ (n_Post :> <<n_Node>>)

\* NewSQLConverter(schema, dialect) with one table mapping and one join configured
sqlConverter ==
    [schema |-> Schema,
     tableMap |-> (n_User :> n_users),
     columnMap |-> (n_Post :> (n_title :> n_title)),
     joinConfig |-> (<<n_User, n_posts>> :>
                       [SourceColumn |-> n_id, TargetTable |-> n_posts,
                        TargetColumn |-> n_user_id, JoinType |-> JoinLeft,
                        RelationType |-> "hasMany"])]

NoArguments == [k \in {} |-> Nil]

Field(name, alias, arguments, selections) ==
    [Name |-> name, Alias |-> alias, Arguments |-> arguments, Selections |-> selections,
     Directives |-> <<>>]

Leaf(name) == Field(name, <<>>, NoArguments, NilSelection)

(***************************************************************************)
(* The query document (gqlparser's ast).  A selection is a record          *)
(*   [kind, Name, Alias, Arguments, Directives, TypeCondition,             *)
(*    hasSelectionSet, SelectionSet]                                       *)
(* with kind "Field", "FragmentSpread" or "InlineFragment";                *)
(* hasSelectionSet is SelectionSet != nil.  An ast.Value is <<Kind, Raw>>, *)
(* or <<"ListValue", children>>, <<"ObjectValue", <<name, value>>...>>.    *)
(***************************************************************************)
AstField(name, alias, arguments, directives) ==
    [kind |-> "Field", Name |-> name, Alias |-> alias, Arguments |-> arguments,
     Directives |-> directives, TypeCondition |-> <<>>,
     hasSelectionSet |-> FALSE, SelectionSet |-> <<>>]

AstObjectField(name, alias, arguments, directives, selectionSet) ==
    [kind |-> "Field", Name |-> name, Alias |-> alias, Arguments |-> arguments,
     Directives |-> directives, TypeCondition |-> <<>>,
     hasSelectionSet |-> TRUE, SelectionSet |-> selectionSet]

AstFragmentSpread(name, directives) ==
    [kind |-> "FragmentSpread", Name |-> name, Alias |-> <<>>, Arguments |-> <<>>,
     Directives |-> directives, TypeCondition |-> <<>>,
     hasSelectionSet |-> FALSE, SelectionSet |-> <<>>]

AstInlineFragment(typeCondition, directives, selectionSet) ==
    [kind |-> "InlineFragment", Name |-> <<>>, Alias |-> <<>>, Arguments |-> <<>>,
     Directives |-> directives, TypeCondition |-> typeCondition,
     hasSelectionSet |-> TRUE, SelectionSet |-> selectionSet]

\* an argument or a directive: [Name, Value] / [Name, Arguments]
AstArgument(name, value) == [Name |-> name, Value |-> value]
AstDirective(name, arguments) == [Name |-> name, Arguments |-> arguments]

(***************************************************************************)
(* graph.Schema.buildTypeMap, the definition of one field of an object     *)
(* type: field = [Name, Directives] of the parsed schema                   *)
(***************************************************************************)
\* for _, arg := range dir.Arguments { switch arg.Name { column, table, relation } }
RECURSIVE sqlArgumentLoop(_, _)
sqlArgumentLoop(arguments, def) ==
    IF Len(arguments) = 0 THEN def
    ELSE LET arg == arguments[1]
         IN  sqlArgumentLoop(Tail(arguments),
                CASE arg.Name = "column" -> [def EXCEPT !.SQLColumn = arg.Value[2]]
                  [] arg.Name = "table" -> [def EXCEPT !.SQLTable = arg.Value[2]]
                  [] arg.Name = "relation" -> [def EXCEPT !.SQLRelation = arg.Value[2]]
                  [] OTHER -> def)

\* for _, dir := range field.Directives { if dir.Name == "sql" { ... } }
RECURSIVE sqlDirectiveLoop(_, _)
sqlDirectiveLoop(directives, def) ==
    IF Len(directives) = 0 THEN def
    ELSE sqlDirectiveLoop(Tail(directives),
            IF directives[1].Name = "sql"
            THEN sqlArgumentLoop(directives[1].Arguments, def)
            ELSE def)

\* objType.Fields[field.Name] of buildTypeMap
buildTypeMapField(field) ==
    sqlDirectiveLoop(field.Directives,
        [Name |-> field.Name, SQLColumn |-> <<>>, SQLTable |-> <<>>, SQLRelation |-> <<>>])

(***************************************************************************)
(* graph.FieldCollector: fc = [schema, implements, fragments, variables]   *)
(***************************************************************************)
\* NewFieldCollector(e.schema, fragments, params.Variables)
NewFieldCollector(schema, fragments, variables) ==
    [schema |-> schema, implements |-> Implements, fragments |-> fragments,
     variables |-> variables]

Digits == <<"0", "1", "2", "3", "4", "5", "6", "7", "8", "9">>
IsDigit(ch) == \E d \in 1..10 : Digits[d] = ch
DigitValue(ch) == (CHOOSE d \in 1..10 : Digits[d] = ch) - 1

\* the loop of parseValue for *int64: digits accumulate, a leading '-' is
\* skipped, any other character ends the loop
RECURSIVE parseDigits(_, _, _)
parseDigits(s, i, val) ==
    IF i > Len(s) THEN val
    ELSE IF IsDigit(s[i]) THEN parseDigits(s, i + 1, val * 10 + DigitValue(s[i]))
    ELSE IF i = 1 /\ s[i] = "-" THEN parseDigits(s, i + 1, val)
    ELSE val

parseValue(s) ==
    LET val == parseDigits(s, 1, 0)
    IN  IF Len(s) > 0 /\ s[1] = "-" THEN 0 - val ELSE val

\* evaluateValue: the Go value of an ast.Value, variables resolved
RECURSIVE evaluateValue(_, _)
evaluateValue(fc, value) ==
    CASE value[1] = "nil" -> Nil
      [] value[1] = "Variable" ->
            IF value[2] \in DOMAIN fc.variables THEN fc.variables[value[2]] ELSE Nil
      [] value[1] = "IntValue" -> VInt(parseValue(value[2]))
      [] value[1] \in {"StringValue", "BlockValue", "EnumValue"} -> VStr(value[2])
      [] value[1] = "BooleanValue" -> VBool(value[2] = "true")
      [] value[1] = "NullValue" -> Nil
      [] value[1] = "ListValue" ->
            VList([i \in 1..Len(value[2]) |-> evaluateValue(fc, value[2][i])])
      [] value[1] = "ObjectValue" ->
            VMap([i \in 1..Len(value[2]) |->
                    <<value[2][i][1], evaluateValue(fc, value[2][i][2])>>])
      [] OTHER -> VStr(value[2])

\* ArgumentList.ForName: the first argument of that name, none when absent
HasArgument(arguments, name) == \E i \in 1..Len(arguments) : arguments[i].Name = name
ForName(arguments, name) ==
    arguments[CHOOSE i \in 1..Len(arguments) :
                 /\ arguments[i].Name = name
                 /\ \A j \in 1..(i - 1) : arguments[j].Name # name]

\* shouldInclude looking at the first directive only
shouldIncludeFirst(fc, directives) ==
    IF Len(directives) = 0 THEN TRUE
    ELSE LET dir == directives[1]
             val == evaluateValue(fc, ForName(dir.Arguments, "if").Value)
         IN  ~(/\ dir.Name \in {"skip", "include"}
               /\ HasArgument(dir.Arguments, "if")
               /\ IsBool(val)
               /\ (dir.Name = "skip") = val[2])

\* shouldInclude: false at the first @skip(if: true) or @include(if: false)
RECURSIVE shouldInclude(_, _)
shouldInclude(fc, directives) ==
    IF Len(directives) = 0 THEN TRUE
    ELSE LET dir == directives[1]
             val == evaluateValue(fc, ForName(dir.Arguments, "if").Value)
             excluded ==
               /\ dir.Name \in {"skip", "include"}
               /\ HasArgument(dir.Arguments, "if")
               /\ IsBool(val)
               /\ (dir.Name = "skip") = val[2]
         IN  IF excluded THEN FALSE ELSE shouldInclude(fc, Tail(directives))

\* collectArguments: result[arg.Name] = evaluateValue(arg.Value), a later
\* argument of the same name replacing an earlier one
RECURSIVE collectArguments(_, _)
collectArguments(fc, args) ==
    IF Len(args) = 0 THEN [k \in {} |-> Nil]
    ELSE LET last == args[Len(args)]
         IN  (last.Name :> evaluateValue(fc, last.Value))
             @@ collectArguments(fc, SubSeq(args, 1, Len(args) - 1))

\* collectDirectives: every directive but skip and include
RECURSIVE collectDirectives(_, _)
collectDirectives(fc, dirs) ==
    IF Len(dirs) = 0 THEN <<>>
    ELSE (IF dirs[1].Name \in {"skip", "include"} THEN <<>>
          ELSE <<[Name |-> dirs[1].Name,
                  Arguments |-> collectArguments(fc, dirs[1].Arguments)]>>)
         \o collectDirectives(fc, Tail(dirs))

\* FieldCollector.getFieldTypeName and Executor.getFieldTypeName
getFieldTypeName(schema, parentType, fieldName) ==
    unwrapFieldType(parentType, fieldName, schema)

\* typeApplies: the same type, or an interface the runtime type implements
typeApplies(fc, fragmentType, runtimeType) ==
    \/ fragmentType = runtimeType
    \/ /\ runtimeType \in DOMAIN fc.schema
       /\ \E i \in 1..Len(fc.implements[runtimeType]) :
             fc.implements[runtimeType][i] = fragmentType

\* all orders of a finite set
Orders(S) ==
    {s \in [1..Cardinality(S) -> S] : \A i, j \in 1..Cardinality(S) : i # j => s[i] # s[j]}

\* the fieldMap and the result.Typename flag CollectFields starts with
EmptyFieldMap == [fieldMap |-> [k \in {} |-> Nil], Typename |-> FALSE]

\* CollectFields(selectionSet, parentType) for a selection set that is not
\* nil: the set of the selection sets it can return, one for every order in
\* which `range fieldMap` can visit the map, here and in the nested calls.
\* collectFieldsImpl gives the fieldMaps one selection set can leave,
\* collectSelection those one selection can leave.
RECURSIVE CollectFields(_, _, _)
RECURSIVE collectFieldsImpl(_, _, _, _)
RECURSIVE collectSelection(_, _, _, _)

collectSelection(fc, sel, parentType, acc) ==
    CASE sel.kind = "Field" ->
           IF ~shouldInclude(fc, sel.Directives) THEN {acc}
           ELSE IF sel.Name = n_typename THEN {[acc EXCEPT !.Typename = TRUE]}
           ELSE
             LET responseKey == IF sel.Alias = <<>> THEN sel.Name ELSE sel.Alias
                 nestedType == getFieldTypeName(fc.schema, parentType, sel.Name)
             IN  IF responseKey \in DOMAIN acc.fieldMap
                 THEN IF sel.hasSelectionSet
                      THEN LET existing == acc.fieldMap[responseKey]
                               selections == IF existing.Selections.isNil
                                             THEN SelectionOf(<<>>, FALSE)
                                             ELSE existing.Selections
                           IN  {[acc EXCEPT !.fieldMap[responseKey].Selections =
                                    [selections EXCEPT !.Fields = @ \o nestedFields.Fields]] :
                                  nestedFields \in
                                     CollectFields(fc, sel.SelectionSet, nestedType)}
                      ELSE {acc}
                 ELSE
                   LET field == [Name |-> sel.Name, Alias |-> sel.Alias,
                                 Arguments |-> collectArguments(fc, sel.Arguments),
                                 Selections |-> NilSelection,
                                 Directives |-> collectDirectives(fc, sel.Directives)]
                   IN  IF sel.hasSelectionSet
                       THEN {[acc EXCEPT !.fieldMap =
                                (responseKey :> [field EXCEPT !.Selections = nested]) @@ @] :
                               nested \in CollectFields(fc, sel.SelectionSet, nestedType)}
                       ELSE {[acc EXCEPT !.fieldMap = (responseKey :> field) @@ @]}
      [] sel.kind = "FragmentSpread" ->
           IF ~shouldInclude(fc, sel.Directives) THEN {acc}
           ELSE IF sel.Name \notin DOMAIN fc.fragments THEN {acc}
           ELSE IF ~typeApplies(fc, fc.fragments[sel.Name].TypeCondition, parentType)
           THEN {acc}
           ELSE collectFieldsImpl(fc, fc.fragments[sel.Name].SelectionSet, parentType, acc)
      [] sel.kind = "InlineFragment" ->
           IF ~shouldInclude(fc, sel.Directives) THEN {acc}
           ELSE IF sel.TypeCondition # <<>> /\ ~typeApplies(fc, sel.TypeCondition, parentType)
           THEN {acc}
           ELSE collectFieldsImpl(fc, sel.SelectionSet, parentType, acc)

collectFieldsImpl(fc, selectionSet, parentType, acc) ==
    IF Len(selectionSet) = 0 THEN {acc}
    ELSE UNION {collectFieldsImpl(fc, Tail(selectionSet), parentType, a) :
                  a \in collectSelection(fc, selectionSet[1], parentType, acc)}

CollectFields(fc, selectionSet, parentType) ==
    UNION {{SelectionOf([i \in 1..Len(o) |-> a.fieldMap[o[i]]], a.Typename) :
              o \in Orders(DOMAIN a.fieldMap)} :
             a \in collectFieldsImpl(fc, selectionSet, parentType, EmptyFieldMap)}

(***************************************************************************)
(* Go slices of path elements.  A slice is [arr, len]: a backing array of  *)
(* the heap (arr = 0 for the nil slice) and a length; the capacity is the  *)
(* length of the array.  append writes in place while the capacity allows  *)
(* and otherwise copies into a new array of the grown capacity.            *)
(***************************************************************************)
NilSlice == [arr |-> 0, len |-> 0]
ZeroElem == <<"zero">>
PathKey(name) == <<"key", name>>
PathIndex(i) == <<"idx", i>>

cap(heap, sl) == IF sl.arr = 0 THEN 0 ELSE Len(heap[sl.arr])

\* runtime.growslice for capacities below the 256-element threshold
growslice(oldCap, newLen) == IF newLen > 2 * oldCap THEN newLen ELSE 2 * oldCap

\* the elements a slice shows when it is read
PathOf(heap, sl) == IF sl.arr = 0 THEN <<>> ELSE SubSeq(heap[sl.arr], 1, sl.len)

\* append(sl, x): the heap after it and the slice it returns
append(heap, sl, x) ==
    IF sl.len < cap(heap, sl)
    THEN [heap |-> [heap EXCEPT ![sl.arr][sl.len + 1] = x],
          slice |-> [arr |-> sl.arr, len |-> sl.len + 1]]
    ELSE LET old == PathOf(heap, sl)
             newCap == growslice(cap(heap, sl), sl.len + 1)
         IN  [heap |-> Append(heap, [i \in 1..newCap |->
                                       IF i <= sl.len THEN old[i]
                                       ELSE IF i = sl.len + 1 THEN x ELSE ZeroElem]),
              slice |-> [arr |-> Len(heap) + 1, len |-> sl.len + 1]]

(***************************************************************************)
(* graph.Executor: e = [schema, resolverMap, astCache].  The execution     *)
(* state st = [heap, errors, invoked, executed] is the heap of path        *)
(* arrays, rc.Errors, and two histories: the resolvers invoked and the     *)
(* fields executed, each with the path it had when it ran.  A resolver is  *)
(* [err, message, value]: what it returns.  A result object is             *)
(* <<"obj", f>> with f from response keys to completed values.             *)
(***************************************************************************)
Obj(f) == <<"obj", f>>
Ok(value, st) == [value |-> value, err |-> FALSE, message |-> "", st |-> st]
Failed(message, st) == [value |-> Nil, err |-> TRUE, message |-> message, st |-> st]

\* RequestContext.AddError
AddError(st, err) == [st EXCEPT !.errors = Append(@, err)]

\* defaultResolve: the entry of a map parent, nil for anything else
defaultResolve(parent, fieldName) ==
    IF IsNil(parent) THEN Nil
    ELSE IF IsMap(parent) /\ MapHas(parent[2], fieldName) THEN MapGet(parent[2], fieldName)
    ELSE Nil

RECURSIVE executeSelectionSet(_, _, _, _, _, _)
RECURSIVE executeFields(_, _, _, _, _, _)
RECURSIVE executeField(_, _, _, _, _, _)
RECURSIVE completeValue(_, _, _, _, _, _)
RECURSIVE completeListValue(_, _, _, _, _, _, _)

\* the loop of executeSelectionSet; acc = [result, st]
executeFields(e, fields, parentType, parentValue, path, acc) ==
    IF Len(fields) = 0 THEN acc
    ELSE
      LET field == fields[1]
          a == append(acc.st.heap, path, PathKey(GetName(field)))
          fieldPath == a.slice
          r == executeField(e, field, parentType, parentValue, fieldPath,
                            [acc.st EXCEPT !.heap = a.heap])
          ran == [r.st EXCEPT !.executed =
                    Append(@, [path |-> PathOf(a.heap, fieldPath), failed |-> r.err])]
          acc1 ==
            IF r.err
            THEN [result |-> (GetName(field) :> Nil) @@ acc.result,
                  st |-> AddError(ran, [Message |-> r.message, Path |-> fieldPath])]
            ELSE [result |-> (GetName(field) :> r.value) @@ acc.result, st |-> ran]
      IN  executeFields(e, Tail(fields), parentType, parentValue, path, acc1)

executeSelectionSet(e, selections, parentType, parentValue, path, st) ==
    IF selections.isNil \/ Len(selections.Fields) = 0 THEN Ok(Nil, st)
    ELSE LET r == executeFields(e, selections.Fields, parentType, parentValue, path,
                                [result |-> [k \in {} |-> Nil], st |-> st])
         IN  Ok(Obj(IF selections.Typename
                    THEN (n_typename :> VStr(parentType)) @@ r.result
                    ELSE r.result),
                r.st)

\* executeField for fields other than the introspection fields __schema, __type
executeField(e, field, parentType, parentValue, path, st) ==
    IF field.Name = n_typename THEN Ok(VStr(parentType), st)
    ELSE
      LET hasResolver == <<parentType, field.Name>> \in DOMAIN e.resolverMap
          resolver == e.resolverMap[<<parentType, field.Name>>]
      IN  IF hasResolver
          THEN LET st1 == [st EXCEPT !.invoked = Append(@, <<parentType, field.Name>>)]
               IN  IF resolver.err THEN Failed(resolver.message, st1)
                   ELSE completeValue(e, field, parentType, resolver.value, path, st1)
          ELSE completeValue(e, field, parentType,
                             defaultResolve(parentValue, field.Name), path, st)

completeValue(e, field, parentType, value, path, st) ==
    IF IsNil(value) THEN Ok(Nil, st)
    ELSE IF IsList(value)
    THEN completeListValue(e, field, parentType, value[2], path, 1, Ok(VList(<<>>), st))
    ELSE IF IsMap(value) /\ HasSelection(field)
    THEN executeSelectionSet(e, field.Selections,
                             getFieldTypeName(e.schema, parentType, field.Name),
                             value, path, st)
    ELSE Ok(value, st)

\* completeListValue that returns the source elements as they are
completeListValueAsIs(e, field, parentType, val, path, i, acc) ==
    Ok(VList(val), acc.st)

\* the loop of completeListValue from item i on; acc holds result[0..i-1]
completeListValue(e, field, parentType, val, path, i, acc) ==
    IF i > Len(val) THEN acc
    ELSE LET a == append(acc.st.heap, path, PathIndex(i - 1))
             completed == completeValue(e, field, parentType, val[i], a.slice,
                                        [acc.st EXCEPT !.heap = a.heap])
         IN  IF completed.err THEN Failed(completed.message, completed.st)
             ELSE completeListValue(e, field, parentType, val, path, i + 1,
                      Ok(VList(Append(acc.value[2], completed.value)), completed.st))

\* parseQuery: the cached document, or gqlparser.LoadQuery's; loaded is what
\* LoadQuery returns for the query, [parseError, Operations, Fragments]
parseQuery(e, query, loaded) ==
    IF query \in e.astCache THEN [err |-> FALSE, doc |-> loaded, astCache |-> e.astCache]
    ELSE IF loaded.parseError THEN [err |-> TRUE, doc |-> loaded, astCache |-> e.astCache]
    ELSE [err |-> FALSE, doc |-> loaded, astCache |-> e.astCache \cup {query}]

\* findOperation returning the first operation whatever the name
findOperationFirst(doc, operationName) ==
    IF Len(doc.Operations) = 0
    THEN [err |-> TRUE, message |-> "no operations in document", op |-> 0]
    ELSE [err |-> FALSE, message |-> "", op |-> 1]

\* findOperation: op is the position of the operation in doc.Operations
findOperation(doc, operationName) ==
    IF Len(doc.Operations) = 0
    THEN [err |-> TRUE, message |-> "no operations in document", op |-> 0]
    ELSE IF operationName = <<>>
    THEN IF Len(doc.Operations) = 1
         THEN [err |-> FALSE, message |-> "", op |-> 1]
         ELSE [err |-> TRUE,
               message |-> "operation name is required when document contains multiple operations",
               op |-> 0]
    ELSE IF \E i \in 1..Len(doc.Operations) : doc.Operations[i].Name = operationName
    THEN [err |-> FALSE, message |-> "",
          op |-> CHOOSE i \in 1..Len(doc.Operations) :
                    /\ doc.Operations[i].Name = operationName
                    /\ \A j \in 1..(i - 1) : doc.Operations[j].Name # operationName]
    ELSE [err |-> TRUE, message |-> "operation not found", op |-> 0]

\* the root type of an operation
RootTypeOf(operation) ==
    CASE operation.Operation = "query" -> n_Query
      [] operation.Operation = "mutation" -> n_Mutation
      [] operation.Operation = "subscription" -> n_Subscription
      [] OTHER -> <<>>

\* NewRequestContext: no errors, and the histories empty
NewRequestContext == [heap |-> <<>>, errors |-> <<>>, invoked |-> <<>>, executed |-> <<>>]

\* NewResponse(rc) with what the request left behind
NewResponse(data, st, op, astCache) ==
    [Data |-> data, Errors |-> st.errors, heap |-> st.heap, invoked |-> st.invoked,
     executed |-> st.executed, operation |-> op, astCache |-> astCache]

\* Execute(params): the responses it can return, one for every selection
\* set CollectFields can return for the operation
Execute(e, params) ==
    LET rc == NewRequestContext
        p == parseQuery(e, params.Query, params.Loaded)
    IN  IF p.err
        THEN {NewResponse(Nil, AddError(rc, [Message |-> "parse error", Path |-> NilSlice]),
                          0, p.astCache)}
        ELSE
          LET f == findOperation(p.doc, params.OperationName)
          IN  IF f.err
              THEN {NewResponse(Nil, AddError(rc, [Message |-> f.message, Path |-> NilSlice]),
                                0, p.astCache)}
              ELSE
                LET operation == p.doc.Operations[f.op]
                    rootType == RootTypeOf(operation)
                    collector == NewFieldCollector(e.schema, p.doc.Fragments,
                                                   params.Variables)
                    run(selections) ==
                        executeSelectionSet(e, selections, rootType, params.RootValue,
                                            NilSlice, rc)
                IN  {NewResponse(run(selections).value,
                                 IF run(selections).err
                                 THEN AddError(run(selections).st,
                                               [Message |-> run(selections).message,
                                                Path |-> NilSlice])
                                 ELSE run(selections).st,
                                 f.op, p.astCache) :
                       selections \in CollectFields(collector, operation.SelectionSet,
                                                    rootType)}

(***************************************************************************)
(* Variable groups                                                         *)
(***************************************************************************)
mVars == <<marshaler, issued>>
convVars == <<conv>>
concVars == <<procs>>
collVars == <<coll>>
execVars == <<exec>>
vars == <<marshaler, issued, conv, procs, coll, exec>>

\* no request is converting
NoProcs == <<>>

\* no document is being collected
NoCollect == [doc |-> 0, variables |-> 0, calls |-> <<>>]

\* no request is being executed
NoResponse ==
    [Data |-> Nil, Errors |-> <<>>, heap |-> <<>>, invoked |-> <<>>, executed |-> <<>>,
     operation |-> 0, astCache |-> {}]
NoExecute ==
    [query |-> 0, operationName |-> 0, resolvers |-> 0, astCache |-> {},
     ctxDone |-> FALSE, done |-> FALSE, response |-> NoResponse]

\* no converter call
NoCall ==
    [op |-> "none", info |-> <<>>, input |-> <<>>, where |-> <<>>, returning |-> <<>>,
     done |-> FALSE, Query |-> <<>>, Params |-> <<>>, Errors |-> <<>>]

(***************************************************************************)
(* Specification of the marshaler alone: Reset and MarshalValue calls.     *)
(***************************************************************************)
InitMarshal ==
    /\ marshaler = NewPostgreSQLMarshaler
    /\ issued = <<>>
    /\ conv = NoCall
    /\ procs = NoProcs
    /\ coll = NoCollect
    /\ exec = NoExecute

ResetCall ==
    /\ marshaler' = Reset(marshaler)
    /\ issued' = <<>>
    /\ UNCHANGED <<convVars, concVars, collVars, execVars>>

MarshalValueCall ==
    /\ Len(issued) < MaxCalls
    /\ \E v \in ScalarValues :
         LET r == MarshalValue(marshaler, v)
         IN  /\ marshaler' = r.m
             /\ issued' = Append(issued, <<v, r.ret>>)
    /\ UNCHANGED <<convVars, concVars, collVars, execVars>>

NextMarshal == ResetCall \/ MarshalValueCall

SpecMarshal == InitMarshal /\ [][NextMarshal]_vars

\* number of non-nil values among the first i MarshalValue calls
RECURSIVE BoundBefore(_)
BoundBefore(i) ==
    IF i = 0 THEN 0
    ELSE BoundBefore(i - 1) + (IF IsNil(issued[i][1]) THEN 0 ELSE 1)

\* C1 (as claimed): after a Reset, N calls of MarshalValue leave Params() with
\* length N, the i-th call returned $i and Params()[i-1] is the i-th value.
C1_EveryValueBound ==
    /\ Len(Params(marshaler)) = Len(issued)
    /\ \A i \in 1..Len(issued) :
         /\ issued[i][2] = Placeholder(i)
         /\ i <= Len(Params(marshaler)) => Params(marshaler)[i] = issued[i][1]

\* C1 (amended): nil values return the text NULL and bind nothing; the k-th
\* non-nil value passed since the Reset returned $k and is Params()[k-1], and
\* Params() holds exactly the non-nil values, as many as placeholders issued.
C1_PlaceholdersPairWithParams ==
    /\ Len(Params(marshaler)) = BoundBefore(Len(issued))
    /\ marshaler.placeholderCounter = Len(Params(marshaler))
    /\ \A i \in 1..Len(issued) :
         IF IsNil(issued[i][1])
         THEN issued[i][2] = Kw("NULL")
         ELSE /\ issued[i][2] = Placeholder(BoundBefore(i))
              /\ BoundBefore(i) <= Len(Params(marshaler))
              /\ Params(marshaler)[BoundBefore(i)] = issued[i][1]

\* three calls, a nil between two bound values: $1, NULL, $2
C1_Witness ==
    /\ Len(issued) = 3
    /\ ~IsNil(issued[1][1]) /\ IsNil(issued[2][1]) /\ ~IsNil(issued[3][1])
    /\ issued[3][2] = Placeholder(2)
    /\ Len(Params(marshaler)) = 2

(***************************************************************************)
(* Specification of single converter calls.  Init draws one call with its  *)
(* inputs and the state an earlier call left in the shared marshaler; the  *)
(* matching action runs the call to its return.                            *)
(***************************************************************************)
\* filter objects, each the entry sequence of a Go map in range order
Filters ==
    << <<>>,
       << <<n_age, VMap(<< <<"_gt", VInt(18)>> >>)>> >>,
       << <<n_name, VStr("John")>> >>,
       << <<n_name, Nil>> >>,
       << <<n_age, VMap(<< <<"_is_null", VBool(TRUE)>> >>)>>, <<n_name, VStr("John")>> >>,
       << <<n_name, VStr("John")>>, <<n_age, VMap(<< <<"_is_null", VBool(TRUE)>> >>)>> >>,
       << <<n_age, VMap(<< <<"~*", VStr("John")>> >>)>> >>,
       << <<n_age, VMap(<< <<"_gt", VInt(18)>>, <<"_lt", VInt(65)>> >>)>> >>,
       << <<K_or, VList(<< VMap(<< <<n_age, VInt(18)>> >>),
                           VMap(<< <<n_userName, VStr("John")>> >>) >>)>> >>,
       << <<K_not, VMap(<< <<n_name, VStr("John")>> >>)>>,
          <<K_and, VList(<< VMap(<< <<n_age, VMap(<< <<"_gte", VInt(18)>> >>)>> >>) >>)>> >>,
       << <<K_and, VList(<<>>)>> >>,
       << <<K_or, VList(<<>>)>>, <<n_name, VStr("John")>> >>,
       << <<K_or, VList(<< VMap(<<>>), VMap(<< <<n_name, VStr("John")>> >>) >>)>> >>,
       << <<K_not, VMap(<<>>)>> >> >>

\* the where / filter arguments of a select
WhereArgs ==
    <<NoArguments>>
    \o [i \in 1..Len(Filters) |-> "where" :> VMap(Filters[i])]
    \o <<"filter" :> VMap(Filters[2]),
         ("where" :> VMap(Filters[3])) @@ ("filter" :> VMap(Filters[2])),
         "where" :> VStr("John")>>

\* the id argument
IdArgs == <<NoArguments, "id" :> VInt(18), "id" :> VStr("John"), "id" :> Nil>>

\* the pagination arguments
PageArgs ==
    <<NoArguments,
      "limit" :> VInt(18),
      "limit" :> VStr("1; DROP TABLE users"),
      "first" :> VInt(18),
      ("limit" :> VInt(18)) @@ ("first" :> VInt(65)),
      "offset" :> VInt(18),
      "skip" :> VInt(65),
      ("limit" :> VInt(18)) @@ ("offset" :> VInt(65)),
      ("first" :> VInt(18)) @@ ("skip" :> VInt(65)) @@ ("offset" :> VStr(""))>>

\* the selections of a select
Selections ==
    <<NilSelection,
      SelectionOf(<<Leaf(n_id), Leaf(n_name)>>, FALSE),
      SelectionOf(<<Field(n_userName, <<"u">>, NoArguments, NilSelection)>>, FALSE),
      SelectionOf(<<Leaf(n_id),
                    Field(n_posts, <<>>, NoArguments,
                          SelectionOf(<<Leaf(n_title)>>, FALSE))>>, FALSE),
      SelectionOf(<<Field(n_posts, <<>>, "limit" :> VInt(18),
                          SelectionOf(<<Leaf(n_id), Leaf(n_title)>>, FALSE))>>, FALSE)>>

ReturnTypes == <<ListOf(Named(n_User)), Named(n_User), NilTypeRef>>

\* the fields and values of insert inputs and update set maps
InputFields == {n_name, n_userName, n_user_name}
InputValues == {Nil, VInt(18), VStr("John")}

\* Go maps of at most MaxFields entries, in every range order
MapInputs ==
    UNION {{s \in [1..n -> InputFields \X InputValues] :
               \A i, j \in 1..n : i # j => s[i][1] # s[j][1]} : n \in 0..MaxFields}

Returnings == <<<<>>, <<n_id, n_userName>>>>

\* the states a previous call can have left in the converter's marshaler
LeftoverMarshalers ==
    {NewPostgreSQLMarshaler, [placeholderCounter |-> 2, params |-> <<VInt(65), VInt(65)>>]}

InitConvert ==
    /\ marshaler \in LeftoverMarshalers
    /\ issued = <<>>
    /\ procs = NoProcs
    /\ coll = NoCollect
    /\ exec = NoExecute
    /\ \/ \E t \in 1..Len(ReturnTypes), sel \in 1..Len(Selections),
            w \in 1..Len(WhereArgs), i \in 1..Len(IdArgs), p \in 1..Len(PageArgs) :
            conv = [NoCall EXCEPT
                      !.op = "select",
                      !.info = [ReturnType |-> ReturnTypes[t],
                                Selection |-> Selections[sel],
                                Arguments |-> WhereArgs[w] @@ IdArgs[i] @@ PageArgs[p]]]
       \/ \E in \in MapInputs, r \in 1..Len(Returnings) :
            conv = [NoCall EXCEPT !.op = "insert", !.input = in, !.returning = Returnings[r]]
       \/ \E in \in MapInputs, f \in 1..Len(Filters), r \in 1..Len(Returnings) :
            conv = [NoCall EXCEPT !.op = "update", !.input = in, !.where = Filters[f],
                                  !.returning = Returnings[r]]
       \/ \E f \in 1..Len(Filters), r \in 1..Len(Returnings) :
            conv = [NoCall EXCEPT !.op = "delete", !.where = Filters[f],
                                  !.returning = Returnings[r]]

\* the call returns: the result is recorded, the marshaler is as the call left it
Return(r) ==
    /\ conv' = [conv EXCEPT !.done = TRUE, !.Query = r.Query, !.Params = r.Params,
                            !.Errors = r.Errors]
    /\ marshaler' = r.m
    /\ UNCHANGED <<issued, concVars, collVars, execVars>>

ConvertToSelectCall ==
    /\ conv.op = "select" /\ ~conv.done
    /\ Return(ConvertToSelect(sqlConverter, marshaler, conv.info))

ConvertToInsertCall ==
    /\ conv.op = "insert" /\ ~conv.done
    /\ Return(ConvertToInsert(sqlConverter, marshaler, n_User, conv.input, conv.returning))

ConvertToUpdateCall ==
    /\ conv.op = "update" /\ ~conv.done
    /\ \E setOrder \in Orders(DOMAIN UpdateOptions(sqlConverter, marshaler, n_User,
                                       conv.where, conv.input, conv.returning).opts.Set) :
         Return(ConvertToUpdate(sqlConverter, marshaler, n_User, conv.where, conv.input,
                                conv.returning, setOrder))

ConvertToDeleteCall ==
    /\ conv.op = "delete" /\ ~conv.done
    /\ Return(ConvertToDelete(sqlConverter, marshaler, n_User, conv.where, conv.returning))

NextConvert ==
    \/ ConvertToSelectCall
    \/ ConvertToInsertCall
    \/ ConvertToUpdateCall
    \/ ConvertToDeleteCall

SpecConvert == InitConvert /\ [][NextConvert]_vars

\* C2 (as claimed): the text a conversion returns holds no user-supplied value
\* (pagination argument, relation limit, operator key, operand) as text.
C2_NoUserValueInText ==
    conv.done => \A i \in 1..Len(conv.Query) : conv.Query[i][1] \notin {"lit", "op"}

(***************************************************************************)
(* Reading an emitted statement back                                       *)
(***************************************************************************)
\* position of the first token t in q at or after from, Len(q) + 1 if there is none
RECURSIVE FindFrom(_, _, _)
FindFrom(q, t, from) ==
    IF from > Len(q) THEN Len(q) + 1
    ELSE IF q[from] = t THEN from
    ELSE FindFrom(q, t, from + 1)

IsNoComma(t) == t # Kw(",")
NoCommas(q) == SelectSeq(q, IsNoComma)
PlaceholdersOf(q) == SelectSeq(q, IsPlaceholder)

\* INSERT INTO t ( columns ) VALUES ( values ): the columns and the values
InsertColumns(q) ==
    IF Len(q) >= 3 /\ q[3] = Kw("(")
    THEN NoCommas(SubSeq(q, 4, FindFrom(q, Kw(")"), 4) - 1))
    ELSE <<>>
InsertValues(q) ==
    LET vpos == FindFrom(q, Kw("VALUES"), 1)
    IN  NoCommas(SubSeq(q, vpos + 2, FindFrom(q, Kw(")"), vpos) - 1))

\* UPDATE t a SET column = value, ... WHERE ... RETURNING ...
SetTokens(q) ==
    NoCommas(SubSeq(q, FindFrom(q, Kw("SET"), 1) + 1, FindFrom(q, Kw("WHERE"), 1) - 1))
WhereTokens(q) ==
    SubSeq(q, FindFrom(q, Kw("WHERE"), 1) + 1, FindFrom(q, Kw("RETURNING"), 1) - 1)

\* the operands of a filter object with their SQL operators, in the order
\* the filter is walked
RECURSIVE Operands(_)
RECURSIVE OperandsOfList(_)
OperandsOfList(conditions) ==
    IF Len(conditions) = 0 THEN <<>>
    ELSE (IF IsMap(conditions[1]) THEN Operands(conditions[1][2]) ELSE <<>>)
         \o OperandsOfList(Tail(conditions))
Operands(filter) ==
    IF Len(filter) = 0 THEN <<>>
    ELSE LET key == filter[1][1]
             value == filter[1][2]
             here ==
               CASE key \in {K_and, K_AND, K_or, K_OR} ->
                      IF IsList(value) THEN OperandsOfList(value[2]) ELSE <<>>
                 [] key \in {K_not, K_NOT} ->
                      IF IsMap(value) THEN Operands(value[2]) ELSE <<>>
                 [] OTHER ->
                      IF IsMap(value)
                      THEN [i \in 1..Len(value[2]) |->
                              <<convertGraphQLOperator(value[2][i][1]), value[2][i][2]>>]
                      ELSE << <<"eq", value>> >>
         IN  here \o Operands(Tail(filter))

\* the operands that reach the text: not nil, and not the flag of is_null
IsRendered(o) == ~IsNil(o[2]) /\ o[1] # "is_null"
RenderedOperands(filter) == SelectSeq(Operands(filter), IsRendered)

\* the quoted column of a User field
ColumnOf(field) == QuoteIdentifier(getColumnName(sqlConverter, n_User, field))

\* token val is the placeholder $n with Params[n-1] = v
IsBoundTo(val, v) ==
    /\ IsPlaceholder(val)
    /\ val[2] \in 1..Len(conv.Params)
    /\ conv.Params[val[2]] = v

\* token val stands for v: NULL for nil, otherwise a placeholder bound to v
ValueIs(val, v) == IF IsNil(v) THEN val = Kw("NULL") ELSE IsBoundTo(val, v)

NoPlaceholderTwice(q) ==
    LET ph == PlaceholdersOf(q)
    IN  \A i, j \in 1..Len(ph) : i # j => ph[i][2] # ph[j][2]

\* C3 (as claimed): in an INSERT or UPDATE every column is paired with a
\* placeholder $n with Params[n-1] the value supplied for the column's field,
\* every WHERE operand of an UPDATE is bound to a placeholder, and no
\* placeholder number is used twice.
C3_EveryColumnHasPlaceholder ==
    LET q == conv.Query
    IN  /\ (conv.done /\ conv.op = "insert") =>
              /\ Len(InsertColumns(q)) = Len(conv.input)
              /\ Len(InsertValues(q)) = Len(conv.input)
              /\ \A i \in 1..Len(conv.input) :
                    /\ InsertColumns(q)[i] = ColumnOf(conv.input[i][1])
                    /\ IsBoundTo(InsertValues(q)[i], conv.input[i][2])
              /\ NoPlaceholderTwice(q)
        /\ (conv.done /\ conv.op = "update") =>
              LET st == SetTokens(q)
                  wp == PlaceholdersOf(WhereTokens(q))
                  ops == Operands(conv.where)
              IN  /\ \A k \in 1..(Len(st) \div 3) :
                        \E e \in 1..Len(conv.input) :
                           /\ st[3 * k - 2] = ColumnOf(conv.input[e][1])
                           /\ IsBoundTo(st[3 * k], conv.input[e][2])
                  /\ Len(wp) = Len(ops)
                  /\ \A j \in 1..Len(ops) : j <= Len(wp) => IsBoundTo(wp[j], ops[j][2])
                  /\ NoPlaceholderTwice(q)

\* C3 (amended): whatever order the input / set map and the SET columns are
\* visited in, every column of an INSERT or UPDATE is paired with NULL when
\* the value supplied for it is nil and otherwise with a placeholder $n with
\* Params[n-1] that value; every set column occurs once; the placeholders of
\* an UPDATE's WHERE clause are, in order, bound to the non-nil operands of
\* the operators other than is_null; no placeholder number is used twice.
C3_ColumnsPairWithValues ==
    LET q == conv.Query
    IN  /\ (conv.done /\ conv.op = "insert") =>
              /\ Len(InsertColumns(q)) = Len(conv.input)
              /\ Len(InsertValues(q)) = Len(conv.input)
              /\ \A i \in 1..Len(conv.input) :
                    /\ InsertColumns(q)[i] = ColumnOf(conv.input[i][1])
                    /\ ValueIs(InsertValues(q)[i], conv.input[i][2])
              /\ NoPlaceholderTwice(q)
        /\ (conv.done /\ conv.op = "update") =>
              LET st == SetTokens(q)
                  wp == PlaceholdersOf(WhereTokens(q))
                  ops == RenderedOperands(conv.where)
              IN  /\ Len(st) % 3 = 0
                  /\ \A k \in 1..(Len(st) \div 3) :
                        \E e \in 1..Len(conv.input) :
                           /\ st[3 * k - 2] = ColumnOf(conv.input[e][1])
                           /\ ValueIs(st[3 * k], conv.input[e][2])
                  /\ \A e \in 1..Len(conv.input) :
                        Cardinality({k \in 1..(Len(st) \div 3) :
                                        st[3 * k - 2] = ColumnOf(conv.input[e][1])}) = 1
                  /\ Len(wp) = Len(ops)
                  /\ \A j \in 1..Len(ops) : j <= Len(wp) => IsBoundTo(wp[j], ops[j][2])
                  /\ NoPlaceholderTwice(q)

\* an UPDATE of two columns with different non-nil values whose SET clause
\* lists them in the opposite order of the set map, with a bound WHERE operand
C3_Witness ==
    /\ conv.done /\ conv.op = "update"
    /\ Len(conv.input) = 2
    /\ ~IsNil(conv.input[1][2]) /\ ~IsNil(conv.input[2][2])
    /\ conv.input[1][2] # conv.input[2][2]
    /\ ColumnOf(conv.input[1][1]) # ColumnOf(conv.input[2][1])
    /\ SetTokens(conv.Query)[1] = ColumnOf(conv.input[2][1])
    /\ Len(PlaceholdersOf(WhereTokens(conv.Query))) = 1

(***************************************************************************)
(* Specification of two requests converting at the same time.  The         *)
(* resolvers of every request call the one package-level sqlConverter, so  *)
(* both calls work on the variable marshaler.  A call is followed through  *)
(* the statements that touch the marshaler: Reset's two assignments, and   *)
(* for each value bound the append of AddParam, the increment of           *)
(* NextPlaceholder, the read of the counter for the returned placeholder,  *)
(* and at the end the read of Params().                                    *)
(***************************************************************************)
Requests == {1, 2}
BindValues == {VInt(18), VStr("John")}

\* the non-nil values a call marshals, in order
BindLists == UNION {[1..n -> BindValues] : n \in 1..MaxBinds}

InitConc ==
    /\ marshaler = NewPostgreSQLMarshaler
    /\ issued = <<>>
    /\ conv = NoCall
    /\ coll = NoCollect
    /\ exec = NoExecute
    /\ \E b \in [Requests -> BindLists] :
         procs = [p \in Requests |->
                    [pc |-> "ResetCounter", values |-> b[p], i |-> 1,
                     placeholders |-> <<>>, Params |-> <<>>]]

\* m.placeholderCounter = 0
ConcResetCounter(p) ==
    /\ procs[p].pc = "ResetCounter"
    /\ marshaler' = [marshaler EXCEPT !.placeholderCounter = 0]
    /\ procs' = [procs EXCEPT ![p].pc = "ResetParams"]
    /\ UNCHANGED <<issued, conv, collVars, execVars>>

\* m.params = make([]interface{}, 0)
ConcResetParams(p) ==
    /\ procs[p].pc = "ResetParams"
    /\ marshaler' = [marshaler EXCEPT !.params = <<>>]
    /\ procs' = [procs EXCEPT ![p].pc = "Append"]
    /\ UNCHANGED <<issued, conv, collVars, execVars>>

\* AddParam: m.params = append(m.params, v)
ConcAppend(p) ==
    /\ procs[p].pc = "Append"
    /\ marshaler' = [marshaler EXCEPT !.params = Append(@, procs[p].values[procs[p].i])]
    /\ procs' = [procs EXCEPT ![p].pc = "Increment"]
    /\ UNCHANGED <<issued, conv, collVars, execVars>>

\* NextPlaceholder: m.placeholderCounter++
ConcIncrement(p) ==
    /\ procs[p].pc = "Increment"
    /\ marshaler' = [marshaler EXCEPT !.placeholderCounter = @ + 1]
    /\ procs' = [procs EXCEPT ![p].pc = "Placeholder"]
    /\ UNCHANGED <<issued, conv, collVars, execVars>>

\* NextPlaceholder: return "$" + strconv.Itoa(m.placeholderCounter)
ConcPlaceholder(p) ==
    /\ procs[p].pc = "Placeholder"
    /\ procs' = [procs EXCEPT
                   ![p].placeholders = Append(@, Placeholder(marshaler.placeholderCounter)),
                   ![p].i = @ + 1,
                   ![p].pc = IF procs[p].i < Len(procs[p].values) THEN "Append" ELSE "Params"]
    /\ UNCHANGED <<marshaler, issued, conv, collVars, execVars>>

\* the call returns Params: c.marshaler.Params()
ConcParams(p) ==
    /\ procs[p].pc = "Params"
    /\ procs' = [procs EXCEPT ![p].Params = Params(marshaler), ![p].pc = "Done"]
    /\ UNCHANGED <<marshaler, issued, conv, collVars, execVars>>

NextConc ==
    \E p \in Requests :
       \/ ConcResetCounter(p)
       \/ ConcResetParams(p)
       \/ ConcAppend(p)
       \/ ConcIncrement(p)
       \/ ConcPlaceholder(p)
       \/ ConcParams(p)

SpecConc == InitConc /\ [][NextConc]_vars

\* C8 (as claimed): under every interleaving of two concurrent conversions,
\* each call returns as Params exactly the values it bound, and its
\* placeholders are $1, $2, ... in its own order.
C8_CallsDoNotShareMarshaler ==
    \A p \in Requests :
       procs[p].pc = "Done" =>
          /\ procs[p].Params = procs[p].values
          /\ procs[p].placeholders = [k \in 1..Len(procs[p].values) |-> Placeholder(k)]

(***************************************************************************)
(* Specification of the field collector: Init draws a document and the     *)
(* request's variables, CollectFieldsCall is one call of CollectFields on  *)
(* the operation's selection set.                                          *)
(***************************************************************************)
NoDirectives == <<>>
NoAstArguments == <<>>
SkipIf(variable) == <<AstDirective("skip", <<AstArgument("if", <<"Variable", variable>>)>>)>>
IncludeIf(variable) ==
    <<AstDirective("include", <<AstArgument("if", <<"Variable", variable>>)>>)>>

AstLeaf(name) == AstField(name, <<>>, NoAstArguments, NoDirectives)
AstObject(name, selectionSet) ==
    AstObjectField(name, <<>>, NoAstArguments, NoDirectives, selectionSet)

n_A == <<"A">>
n_B == <<"B">>
n_C == <<"C">>
n_a == <<"a">>
n_b == <<"b">>

\* the fragment definitions of the documents
Fragments ==
    (n_A :> [TypeCondition |-> n_User,
             SelectionSet |-> <<AstObject(n_profile, <<AstLeaf(n_bio)>>)>>])
    @@ (n_B :> [TypeCondition |-> n_User,
                SelectionSet |-> <<AstObject(n_profile, <<AstLeaf(n_avatar)>>)>>])
    @@ (n_C :> [TypeCondition |-> n_Post,
                SelectionSet |-> <<AstLeaf(n_title)>>])

\* the selection sets of the query operations collected
Documents ==
    << \* { users { id name } }
       <<AstObject(n_users, <<AstLeaf(n_id), AstLeaf(n_name)>>)>>,
       \* { users { id name } users { id userName } }
       <<AstObject(n_users, <<AstLeaf(n_id), AstLeaf(n_name)>>),
         AstObject(n_users, <<AstLeaf(n_id), AstLeaf(n_userName)>>)>>,
       \* { user { ...A ...B } }
       <<AstObject(n_user, <<AstFragmentSpread(n_A, NoDirectives),
                             AstFragmentSpread(n_B, NoDirectives)>>)>>,
       \* { user { ...A ...A } }
       <<AstObject(n_user, <<AstFragmentSpread(n_A, NoDirectives),
                             AstFragmentSpread(n_A, NoDirectives)>>)>>,
       \* { user { id } users { id } __typename }
       <<AstObject(n_user, <<AstLeaf(n_id)>>), AstObject(n_users, <<AstLeaf(n_id)>>),
         AstLeaf(n_typename)>>,
       \* { users @skip(if: $s) { id } user @include(if: $s) { name } }
       <<AstObjectField(n_users, <<>>, NoAstArguments, SkipIf("s"), <<AstLeaf(n_id)>>),
         AstObjectField(n_user, <<>>, NoAstArguments, IncludeIf("s"), <<AstLeaf(n_name)>>)>>,
       \* { user { ... on Node { id } ... on Post { title } ...C name __typename } }
       <<AstObject(n_user, <<AstInlineFragment(n_Node, NoDirectives, <<AstLeaf(n_id)>>),
                             AstInlineFragment(n_Post, NoDirectives, <<AstLeaf(n_title)>>),
                             AstFragmentSpread(n_C, NoDirectives),
                             AstLeaf(n_name), AstLeaf(n_typename)>>)>>,
       \* { a: user(id: 18) { id } b: user { name } user { id } }
       <<AstObjectField(n_user, n_a, <<AstArgument("id", <<"IntValue", <<"1", "8">>>>)>>,
                        NoDirectives, <<AstLeaf(n_id)>>),
         AstObjectField(n_user, n_b, NoAstArguments, NoDirectives, <<AstLeaf(n_name)>>),
         AstObject(n_user, <<AstLeaf(n_id)>>)>> >>

\* the variables of the request
VariableSets == <<[k \in {} |-> Nil], "s" :> VBool(TRUE), "s" :> VBool(FALSE)>>

InitCollect ==
    /\ marshaler = NewPostgreSQLMarshaler
    /\ issued = <<>>
    /\ conv = NoCall
    /\ procs = NoProcs
    /\ exec = NoExecute
    /\ \E d \in 1..Len(Documents), v \in 1..Len(VariableSets) :
         coll = [doc |-> d, variables |-> v, calls |-> <<>>]

CollectFieldsCall ==
    /\ coll.doc # 0
    /\ Len(coll.calls) < MaxCollects
    /\ \E selections \in CollectFields(
            NewFieldCollector(Schema, Fragments, VariableSets[coll.variables]),
            Documents[coll.doc], n_Query) :
         coll' = [coll EXCEPT !.calls = Append(@, selections)]
    /\ UNCHANGED <<marshaler, issued, conv, procs, exec>>

NextCollect == CollectFieldsCall

SpecCollect == InitCollect /\ [][NextCollect]_vars

\* the response keys of a selection set, in its order
KeysOf(selections) == [i \in 1..Len(selections.Fields) |-> GetName(selections.Fields[i])]

\* no two fields of a selection set, at any depth, have the same response key
RECURSIVE UniqueKeys(_)
UniqueKeys(selections) ==
    /\ \A i, j \in 1..Len(selections.Fields) :
          i # j => KeysOf(selections)[i] # KeysOf(selections)[j]
    /\ \A i \in 1..Len(selections.Fields) : UniqueKeys(selections.Fields[i].Selections)

\* C4 (as claimed): a collected tree holds no two fields with the same
\* response key in any selection set, at any depth.
C4_NoDuplicateResponseKeys ==
    \A n \in 1..Len(coll.calls) : UniqueKeys(coll.calls[n])

\* C9 (as claimed): two calls of CollectFields with the same document,
\* variables and fragments return the same tree, content and order.
C9_CollectFieldsDeterministic ==
    Len(coll.calls) >= 2 => coll.calls[1] = coll.calls[2]

\* the response keys of a selection set in the order in which the document
\* first names them, fragments followed where they apply
RECURSIVE FirstEncountered(_, _, _, _)
FirstEncountered(fc, selectionSet, parentType, keys) ==
    IF Len(selectionSet) = 0 THEN keys
    ELSE
      LET sel == selectionSet[1]
          responseKey == IF sel.Alias = <<>> THEN sel.Name ELSE sel.Alias
          keys1 ==
            IF ~shouldInclude(fc, sel.Directives) THEN keys
            ELSE CASE sel.kind = "Field" ->
                        IF \/ sel.Name = n_typename
                           \/ \E i \in 1..Len(keys) : keys[i] = responseKey
                        THEN keys
                        ELSE Append(keys, responseKey)
                   [] sel.kind = "FragmentSpread" ->
                        IF /\ sel.Name \in DOMAIN fc.fragments
                           /\ typeApplies(fc, fc.fragments[sel.Name].TypeCondition, parentType)
                        THEN FirstEncountered(fc, fc.fragments[sel.Name].SelectionSet,
                                              parentType, keys)
                        ELSE keys
                   [] sel.kind = "InlineFragment" ->
                        IF sel.TypeCondition = <<>>
                           \/ typeApplies(fc, sel.TypeCondition, parentType)
                        THEN FirstEncountered(fc, sel.SelectionSet, parentType, keys)
                        ELSE keys
      IN  FirstEncountered(fc, Tail(selectionSet), parentType, keys1)

\* C10 (as claimed): the fields of a collected selection set are in the order
\* in which the document first names their response keys.
C10_FieldsInDocumentOrder ==
    \A n \in 1..Len(coll.calls) :
       KeysOf(coll.calls[n]) =
          FirstEncountered(NewFieldCollector(Schema, Fragments, VariableSets[coll.variables]),
                           Documents[coll.doc], n_Query, <<>>)

(***************************************************************************)
(* Specification of one request to the executor.  Init draws the query,    *)
(* the operation name, the resolvers and whether the query is already in   *)
(* the AST cache; Cancel is the request's context being cancelled or       *)
(* timing out before the executor runs; ExecuteCall is Execute.            *)
(***************************************************************************)
Operation(name, operation, selectionSet) ==
    [Name |-> name, Operation |-> operation, SelectionSet |-> selectionSet]

NoFragments == [k \in {} |-> Nil]

\* what gqlparser.LoadQuery returns for the queries of the requests
Queries ==
    << \* not a GraphQL document
       [parseError |-> TRUE, Operations |-> <<>>, Fragments |-> NoFragments],
       \* the empty document
       [parseError |-> FALSE, Operations |-> <<>>, Fragments |-> NoFragments],
       \* { users { id name } }
       [parseError |-> FALSE, Fragments |-> NoFragments,
        Operations |-> <<Operation(<<>>, "query", Documents[1])>>],
       \* query A { user { id name } }  query B { users { name } }
       [parseError |-> FALSE, Fragments |-> NoFragments,
        Operations |->
           <<Operation(n_A, "query", <<AstObject(n_user, <<AstLeaf(n_id), AstLeaf(n_name)>>)>>),
             Operation(n_B, "query", <<AstObject(n_users, <<AstLeaf(n_name)>>)>>)>>],
       \* query A { users { profile { bio avatar } } }
       [parseError |-> FALSE, Fragments |-> NoFragments,
        Operations |->
           <<Operation(n_A, "query",
                <<AstObject(n_users,
                     <<AstObject(n_profile, <<AstLeaf(n_bio), AstLeaf(n_avatar)>>)>>)>>)>>],
       \* { user { name ...A posts { title } __typename } users { id } }
       [parseError |-> FALSE, Fragments |-> Fragments,
        Operations |->
           <<Operation(<<>>, "query",
                <<AstObject(n_user, <<AstLeaf(n_name), AstFragmentSpread(n_A, NoDirectives),
                                      AstObject(n_posts, <<AstLeaf(n_title)>>),
                                      AstLeaf(n_typename)>>),
                  AstObject(n_users, <<AstLeaf(n_id)>>)>>)>>],
       \* { user { __typename } }
       [parseError |-> FALSE, Fragments |-> NoFragments,
        Operations |->
           <<Operation(<<>>, "query", <<AstObject(n_user, <<AstLeaf(n_typename)>>)>>)>>],
       \* { user { id } user { __typename name } }
       [parseError |-> FALSE, Fragments |-> NoFragments,
        Operations |->
           <<Operation(<<>>, "query",
                <<AstObject(n_user, <<AstLeaf(n_id)>>),
                  AstObject(n_user, <<AstLeaf(n_typename), AstLeaf(n_name)>>)>>)>>] >>

OperationNames == <<<<>>, n_A, n_B, n_C>>

\* the values the resolvers return
UserValue(id) ==
    VMap(<< <<n_id, VInt(id)>>, <<n_name, VStr("John")>>,
            <<n_profile, VMap(<< <<n_bio, VStr("bio")>>, <<n_avatar, VStr("png")>> >>)>>,
            <<n_posts, VList(<< VMap(<< <<n_title, VStr("first")>> >>),
                                VMap(<< <<n_title, VStr("second")>> >>) >>)>> >>)

Returns(value) == [err |-> FALSE, message |-> "", value |-> value]
Fails(message) == [err |-> TRUE, message |-> message, value |-> Nil]

\* the resolver maps of the executor: (parent type, field) -> resolver
RootResolvers ==
    (<<n_Query, n_users>> :> Returns(VList(<<UserValue(18), UserValue(65)>>)))
    @@ (<<n_Query, n_user>> :> Returns(UserValue(18)))

ResolverMaps ==
    <<RootResolvers,
      (<<n_Profile, n_bio>> :> Fails("bio failed")) @@ RootResolvers,
      (<<n_User, n_name>> :> Fails("name failed"))
         @@ (<<n_Post, n_title>> :> Returns(VStr("title"))) @@ RootResolvers,
      (<<n_Query, n_users>> :> Fails("users failed"))
         @@ (<<n_Query, n_user>> :> Returns(Nil))>>

InitExec ==
    /\ marshaler = NewPostgreSQLMarshaler
    /\ issued = <<>>
    /\ conv = NoCall
    /\ procs = NoProcs
    /\ coll = NoCollect
    /\ \E q \in 1..Len(Queries), n \in 1..Len(OperationNames), r \in 1..Len(ResolverMaps),
          cached \in BOOLEAN :
         /\ cached => ~Queries[q].parseError
         /\ exec = [NoExecute EXCEPT !.query = q, !.operationName = n, !.resolvers = r,
                                     !.astCache = IF cached THEN {q} ELSE {}]

\* the request's context is cancelled, or its deadline passes
Cancel ==
    /\ exec.query # 0 /\ ~exec.done /\ ~exec.ctxDone
    /\ exec' = [exec EXCEPT !.ctxDone = TRUE]
    /\ UNCHANGED <<marshaler, issued, conv, procs, coll>>

ExecuteCall ==
    /\ exec.query # 0 /\ ~exec.done
    /\ \E response \in
          Execute([schema |-> Schema, resolverMap |-> ResolverMaps[exec.resolvers],
                   astCache |-> exec.astCache],
                  [Query |-> exec.query, Loaded |-> Queries[exec.query],
                   OperationName |-> OperationNames[exec.operationName],
                   Variables |-> [k \in {} |-> Nil],
                   Context |-> [done |-> exec.ctxDone],
                   RootValue |-> Nil]) :
         exec' = [exec EXCEPT !.done = TRUE, !.response = response,
                              !.astCache = response.astCache]
    /\ UNCHANGED <<marshaler, issued, conv, procs, coll>>

NextExec == Cancel \/ ExecuteCall

SpecExec == InitExec /\ [][NextExec]_vars

\* the value a response's data holds at a path, and whether it holds one
RECURSIVE HasEntry(_, _)
HasEntry(value, path) ==
    IF Len(path) = 0 THEN TRUE
    ELSE IF path[1][1] = "key"
    THEN /\ value[1] = "obj"
         /\ path[1][2] \in DOMAIN value[2]
         /\ HasEntry(value[2][path[1][2]], Tail(path))
    ELSE /\ value[1] = "list"
         /\ path[1][2] + 1 \in 1..Len(value[2])
         /\ HasEntry(value[2][path[1][2] + 1], Tail(path))

RECURSIVE Lookup(_, _)
Lookup(value, path) ==
    IF Len(path) = 0 THEN value
    ELSE IF path[1][1] = "key" THEN Lookup(value[2][path[1][2]], Tail(path))
    ELSE Lookup(value[2][path[1][2] + 1], Tail(path))

\* C5 (as claimed): every field the executor ran has its entry in the data;
\* the entry of a field whose resolution failed is null and the error list
\* holds exactly one error whose path is the path of that field.
C5_FieldErrorHasItsPath ==
    exec.done =>
       \A i \in 1..Len(exec.response.executed) :
          LET x == exec.response.executed[i]
          IN  /\ HasEntry(exec.response.Data, x.path)
              /\ x.failed =>
                   /\ Lookup(exec.response.Data, x.path) = Nil
                   /\ Cardinality({k \in 1..Len(exec.response.Errors) :
                                      PathOf(exec.response.heap, exec.response.Errors[k].Path)
                                         = x.path}) = 1

\* the operations a request selects: the one of the given name, or the sole
\* operation when no name is given
SelectedOperations ==
    LET q == Queries[exec.query]
        name == OperationNames[exec.operationName]
    IN  IF q.parseError THEN {}
        ELSE IF name = <<>> THEN (IF Len(q.Operations) = 1 THEN {1} ELSE {})
        ELSE {i \in 1..Len(q.Operations) : q.Operations[i].Name = name}

\* C6: Execute runs the operation the request selects; when the query does
\* not parse or selects no operation the response has no data and exactly
\* one error, and no resolver was invoked.
C6_OperationUniquelySelected ==
    exec.done =>
       IF SelectedOperations # {}
       THEN exec.response.operation \in SelectedOperations
       ELSE /\ exec.response.operation = 0
            /\ exec.response.Data = Nil
            /\ Len(exec.response.Errors) = 1
            /\ exec.response.invoked = <<>>
            /\ exec.response.executed = <<>>

\* a document of two operations executed without an operation name
C6_Witness ==
    /\ exec.done
    /\ ~Queries[exec.query].parseError
    /\ Len(Queries[exec.query].Operations) = 2
    /\ OperationNames[exec.operationName] = <<>>
    /\ Len(exec.response.Errors) = 1
    /\ exec.response.Data = Nil

\* the fields whose resolution failed, in the order they failed, each with
\* the response path it had when it ran
FailedFields(response) == SelectSeq(response.executed, LAMBDA x : x.failed)

\* C29: the path stored on a recorded field error is still the response
\* path of the failed field when the request ends: later siblings and later
\* list elements at any depth leave the recorded paths unchanged.
C29_RecordedPathsStay ==
    (exec.done /\ exec.response.operation # 0) =>
       LET failed == FailedFields(exec.response)
       IN  /\ Len(exec.response.Errors) = Len(failed)
           /\ \A k \in 1..Len(failed) :
                 PathOf(exec.response.heap, exec.response.Errors[k].Path) = failed[k].path

\* the requests that select __typename under user: with other fields, as
\* the only selection, and in the second of two selections of user
TypenameQueries == {6, 7, 8}

\* C25: when __typename is selected under an object-valued field, alone or
\* with other fields, in one selection of the field or in one of several
\* that are merged, the object returned for the field holds __typename with
\* the name of the object's type; __typename is never executed as a
\* regular field.
C25_TypenameInObject ==
    (exec.done /\ exec.query \in TypenameQueries /\ exec.response.operation # 0) =>
       LET data == exec.response.Data
       IN  /\ (/\ data[1] = "obj"
               /\ n_user \in DOMAIN data[2]
               /\ ~IsNil(data[2][n_user])) =>
                  /\ data[2][n_user][1] = "obj"
                  /\ n_typename \in DOMAIN data[2][n_user][2]
                  /\ data[2][n_user][2][n_typename] = VStr(n_User)
           /\ \A i \in 1..Len(exec.response.executed) :
                 LET path == exec.response.executed[i].path
                 IN  path[Len(path)] # PathKey(n_typename)

\* C7 (as claimed): a request whose context was cancelled before the
\* executor ran has no resolver invoked.
C7_NoResolverAfterCancel ==
    (exec.done /\ exec.ctxDone) => exec.response.invoked = <<>>

(***************************************************************************)
(* Specification of the directives @skip and @include.  Init draws a       *)
(* selection (a field, a fragment spread or an inline fragment) and the    *)
(* one or two directives it carries, each with a literal or a variable     *)
(* bound to a boolean; CollectDirectedCall collects { user { id S } }      *)
(* where S is that selection and brings the response key name.             *)
(***************************************************************************)
MaxDirectives == 2

SelectionKinds == <<"Field", "FragmentSpread", "InlineFragment">>

\* the directives a selection can carry: name, form of the argument, boolean
DirectiveChoices ==
    [name : {"skip", "include"}, form : {"literal", "variable"}, b : BOOLEAN]

\* the variables of the request: t is bound to true, f to false
DirectiveVariables == ("t" :> VBool(TRUE)) @@ ("f" :> VBool(FALSE))

\* the ast.Directive of a choice
DirectiveAst(d) ==
    AstDirective(d.name,
       <<AstArgument("if",
            IF d.form = "literal"
            THEN <<"BooleanValue", IF d.b THEN "true" ELSE "false">>
            ELSE <<"Variable", IF d.b THEN "t" ELSE "f">>)>>)

\* fragment Node on User { name }
DirectiveFragments ==
    n_Node :> [TypeCondition |-> n_User, SelectionSet |-> <<AstLeaf(n_name)>>]

\* the selection of a kind carrying the directives
DirectedSelection(kind, directives) ==
    LET dirs == [i \in 1..Len(directives) |-> DirectiveAst(directives[i])]
    IN  CASE kind = "Field" -> AstField(n_name, <<>>, NoAstArguments, dirs)
          [] kind = "FragmentSpread" -> AstFragmentSpread(n_Node, dirs)
          [] kind = "InlineFragment" -> AstInlineFragment(n_User, dirs, <<AstLeaf(n_name)>>)

InitDirective ==
    /\ marshaler = NewPostgreSQLMarshaler
    /\ issued = <<>>
    /\ conv = NoCall
    /\ procs = NoProcs
    /\ exec = NoExecute
    /\ \E k \in 1..Len(SelectionKinds), n \in 1..MaxDirectives :
         \E ds \in [1..n -> DirectiveChoices] :
            coll = [kind |-> k, directives |-> ds, calls |-> <<>>]

CollectDirectedCall ==
    /\ Len(coll.calls) = 0
    /\ \E selections \in CollectFields(
            NewFieldCollector(Schema, DirectiveFragments, DirectiveVariables),
            <<AstObject(n_user,
                 <<AstLeaf(n_id),
                   DirectedSelection(SelectionKinds[coll.kind], coll.directives)>>)>>,
            n_Query) :
         coll' = [coll EXCEPT !.calls = Append(@, selections)]
    /\ UNCHANGED <<marshaler, issued, conv, procs, exec>>

NextDirective == CollectDirectedCall

SpecDirective == InitDirective /\ [][NextDirective]_vars

\* some directive of the selection is @skip(if: true) or @include(if: false)
SomeDirectiveExcludes ==
    \E i \in 1..Len(coll.directives) :
       (coll.directives[i].name = "skip") = coll.directives[i].b

\* the response keys collected under user
CollectedUnderUser == KeysOf(coll.calls[1].Fields[1].Selections)

\* C11: a selection carrying @skip(if: true) or @include(if: false), as a
\* literal or through a variable, is absent from the collected tree, and a
\* selection none of whose directives excludes it is present.
C11_SkipAndIncludeDecidePresence ==
    Len(coll.calls) = 1 =>
       /\ KeysOf(coll.calls[1]) = <<n_user>>
       /\ \E i \in 1..Len(CollectedUnderUser) : CollectedUnderUser[i] = n_id
       /\ (\E i \in 1..Len(CollectedUnderUser) : CollectedUnderUser[i] = n_name)
             <=> ~SomeDirectiveExcludes

\* a fragment spread with @include(if: true) @skip(if: $t) was collected
C11_Witness ==
    /\ Len(coll.calls) = 1
    /\ SelectionKinds[coll.kind] = "FragmentSpread"
    /\ Len(coll.directives) = 2
    /\ coll.directives[1] = [name |-> "include", form |-> "literal", b |-> TRUE]
    /\ coll.directives[2] = [name |-> "skip", form |-> "variable", b |-> TRUE]
    /\ CollectedUnderUser = <<n_id>>

(***************************************************************************)
(* Specification of the selection of relations.  The converter is the one  *)
(* InitSQLConverter configures from the relation table of the              *)
(* configuration: User.posts is hasMany over posts(user_id), User.profile  *)
(* is hasOne over profiles(user_id).  Init draws the fields selected under *)
(* users, with distinct response keys; ConvertRelationsCall is             *)
(* ConvertToSelect on that selection.                                      *)
(***************************************************************************)
MaxSelected == 3

n_profiles == <<"p", "r", "o", "f", "i", "l", "e", "s">>
n_p1 == <<"p", "1">>
n_p2 == <<"p", "2">>

\* the converter after InitSQLConverter(schema)
InitSQLConverter ==
    [schema |-> Schema,
     tableMap |-> (n_User :> n_users),
     columnMap |-> [k \in {} |-> <<>>],
     joinConfig |->
        (<<n_User, n_posts>> :>
            [SourceColumn |-> n_id, TargetTable |-> n_posts, TargetColumn |-> n_user_id,
             JoinType |-> JoinLeft, RelationType |-> "hasMany"])
        @@ (<<n_User, n_profile>> :>
            [SourceColumn |-> n_id, TargetTable |-> n_profiles, TargetColumn |-> n_user_id,
             JoinType |-> JoinLeft, RelationType |-> "hasOne"])]

TitleOnly == SelectionOf(<<Leaf(n_title)>>, FALSE)

\* the fields a selection under users is drawn from
SelectedChoices ==
    << Leaf(n_id),
       Leaf(n_name),
       Field(n_posts, <<>>, NoArguments, TitleOnly),
       Field(n_posts, <<>>, "limit" :> VInt(2), TitleOnly),
       Field(n_posts, n_p1, NoArguments, TitleOnly),
       Field(n_posts, n_p2, "limit" :> VInt(2),
             SelectionOf(<<Leaf(n_id), Leaf(n_title)>>, FALSE)),
       Field(n_profile, <<>>, NoArguments, SelectionOf(<<Leaf(n_bio)>>, FALSE)),
       Field(n_posts, <<>>, NoArguments, NilSelection) >>

InitRelations ==
    /\ marshaler = NewPostgreSQLMarshaler
    /\ issued = <<>>
    /\ procs = NoProcs
    /\ coll = NoCollect
    /\ exec = NoExecute
    /\ \E n \in 1..MaxSelected :
         \E sel \in [1..n -> 1..Len(SelectedChoices)] :
            /\ \A i, j \in 1..n :
                  i # j => GetName(SelectedChoices[sel[i]]) # GetName(SelectedChoices[sel[j]])
            /\ conv = [selection |-> sel, done |-> FALSE, ok |-> FALSE, Query |-> <<>>,
                       Params |-> <<>>, Errors |-> <<>>, Columns |-> <<>>, Joins |-> <<>>,
                       Options |-> EmptySelectOptions]

\* the call returns: the result and the options it was built from are recorded
ReturnRelations(r) ==
    /\ conv' = [conv EXCEPT !.done = TRUE, !.ok = r.ok, !.Query = r.Query,
                            !.Params = r.Params, !.Errors = r.Errors,
                            !.Columns = r.Options.Columns,
                            !.Joins = r.Options.Joins, !.Options = r.Options]
    /\ marshaler' = r.m
    /\ UNCHANGED <<issued, procs, coll, exec>>

ConvertRelationsCall ==
    /\ "selection" \in DOMAIN conv
    /\ ~conv.done
    /\ ReturnRelations(
          ConvertToSelect(InitSQLConverter, marshaler,
             [ReturnType |-> ListOf(Named(n_User)),
              Selection |-> SelectionOf([i \in 1..Len(conv.selection) |->
                                           SelectedChoices[conv.selection[i]]], FALSE),
              Arguments |-> NoArguments]))

NextRelations == ConvertRelationsCall

SpecRelations == InitRelations /\ [][NextRelations]_vars

\* the positions of a token in a text
PositionsOf(q, t) == {k \in 1..Len(q) : q[k] = t}

\* the selection holds id, name and posts(limit: 2) { title }, and no other
\* selection of posts
SelectsLimitedPosts ==
    /\ \E i \in 1..Len(conv.selection) : conv.selection[i] = 1
    /\ \E i \in 1..Len(conv.selection) : conv.selection[i] = 2
    /\ \E i \in 1..Len(conv.selection) : conv.selection[i] = 4
    /\ \A i \in 1..Len(conv.selection) : conv.selection[i] \in {1, 2, 4, 7}

\* the lateral subquery over posts, from "(" to ")"
LimitedPostsSubquery ==
    <<Kw("("), Kw("SELECT"), Raw(n_title), Kw("FROM"), QuoteIdentifier(n_posts),
      Kw("WHERE"), QuoteIdentifier(n_user_id), Kw("="), Raw(<<"u">>), Kw("."),
      QuoteIdentifier(n_id), Kw("LIMIT"), Lit(VInt(2)), Kw(")")>>

\* C12: for users { id name posts(limit: 2) { title } } with User.posts a
\* hasMany relation, the statement selects u.id and u.name, holds exactly
\* one LEFT JOIN LATERAL subquery over posts with LIMIT 2 correlated on the
\* foreign key, and selects the subquery's title under an alias prefixed
\* with the join alias.
C12_HasManyIsOneLateralJoin ==
    (conv.done /\ SelectsLimitedPosts) =>
       LET q == conv.Query
           from == FindFrom(q, Kw("FROM"), 1)
           selectList == SubSeq(q, 1, from - 1)
       IN  /\ selectList = <<Kw("SELECT")>> \o Join(conv.Columns, <<Kw(",")>>)
           /\ \E c \in 1..Len(conv.Columns) :
                 conv.Columns[c] = <<Raw(<<"u">>), Kw("."), QuoteIdentifier(n_id)>>
           /\ \E c \in 1..Len(conv.Columns) :
                 conv.Columns[c] = <<Raw(<<"u">>), Kw("."), QuoteIdentifier(n_name)>>
           /\ Cardinality(PositionsOf(q, Kw("LEFT JOIN LATERAL"))) = 1
           /\ \A k \in PositionsOf(q, Kw("LEFT JOIN LATERAL")) :
                 /\ k > from
                 /\ k + 15 <= Len(q)
                 /\ SubSeq(q, k + 1, k + 14) = LimitedPostsSubquery
                 /\ q[k + 15][1] = "raw"
                 /\ LET joinAlias == q[k + 15][2]
                    IN  \E c \in 1..Len(conv.Columns) :
                           conv.Columns[c] =
                              <<Raw(joinAlias), Kw("."), QuoteIdentifier(n_title), Kw("AS"),
                                Raw(joinAlias \o <<"_">> \o n_title)>>

\* users { id name posts(limit: 2) { title } } was converted
C12_Witness ==
    /\ conv.done
    /\ conv.selection = <<1, 2, 4>>
    /\ Len(conv.Joins) = 1
    /\ conv.Joins[1].JoinType = JoinLeftLateral
    /\ Len(conv.Columns) = 3

\* the fields selected under users, in selection order
SelectedFields == [i \in 1..Len(conv.selection) |-> SelectedChoices[conv.selection[i]]]

\* the field has a JoinConfig under "User.fieldName"
IsRelationField(field) == <<n_User, field.Name>> \in DOMAIN InitSQLConverter.joinConfig

\* the number of relation fields among the first i selected fields
RelationsUpTo(i) == Cardinality({k \in 1..i : IsRelationField(SelectedFields[k])})

\* the number of columns the first i selected fields yield: one for a plain
\* field, one per nested field for a relation
RECURSIVE ColumnsUpTo(_)
ColumnsUpTo(i) ==
    IF i = 0 THEN 0
    ELSE ColumnsUpTo(i - 1)
         + (IF IsRelationField(SelectedFields[i])
            THEN (IF HasSelection(SelectedFields[i])
                  THEN Len(SelectedFields[i].Selections.Fields) ELSE 0)
            ELSE 1)

\* C22: every selected field with a JoinConfig gives exactly one join, which
\* is LEFT JOIN LATERAL with subquery columns, a correlating subquery WHERE
\* and the limit argument as LIMIT exactly when the relation is hasMany and
\* the field has a non-empty nested selection, and otherwise has the
\* configured JoinType and no subquery metadata; every selected field
\* without a JoinConfig gives exactly one plain column and no join.
C22_RelationFieldsJoinScalarFieldsSelect ==
    conv.done =>
       /\ Len(conv.Joins) = RelationsUpTo(Len(SelectedFields))
       /\ Len(conv.Columns) = ColumnsUpTo(Len(SelectedFields))
       /\ \A i \in 1..Len(SelectedFields) :
             LET field == SelectedFields[i]
             IN  IF IsRelationField(field)
                 THEN LET join == conv.Joins[RelationsUpTo(i)]
                          joinCfg == InitSQLConverter.joinConfig[<<n_User, field.Name>>]
                      IN  /\ join.TableName = <<QuoteIdentifier(joinCfg.TargetTable)>>
                          /\ IF joinCfg.RelationType = "hasMany" /\ HasSelection(field)
                             THEN /\ join.JoinType = JoinLeftLateral
                                  /\ Len(join.SubqueryColumns) = Len(field.Selections.Fields)
                                  /\ join.SubqueryWhere =
                                        <<QuoteIdentifier(joinCfg.TargetColumn), Kw("="),
                                          Raw(<<"u">>), Kw("."),
                                          QuoteIdentifier(joinCfg.SourceColumn)>>
                                  /\ IF "limit" \in DOMAIN field.Arguments
                                     THEN join.Limit = Sprint(field.Arguments["limit"])
                                     ELSE join.Limit = <<>>
                             ELSE /\ join.JoinType = joinCfg.JoinType
                                  /\ join.SubqueryColumns = <<>>
                                  /\ join.SubqueryWhere = <<>>
                                  /\ join.Limit = <<>>
                 ELSE conv.Columns[ColumnsUpTo(i)] =
                         <<Raw(<<"u">>), Kw("."), QuoteIdentifier(field.Name)>>

\* a plain field, a hasMany relation with a limit and two nested fields, and
\* a hasMany relation selected without nested fields were converted
C22_Witness ==
    /\ conv.done
    /\ conv.selection = <<1, 6, 8>>
    /\ Len(conv.Joins) = 2
    /\ conv.Joins[1].JoinType = JoinLeftLateral
    /\ conv.Joins[1].Limit # <<>>
    /\ conv.Joins[2].JoinType = JoinLeft
    /\ Len(conv.Columns) = 3

\* the alias a selected column is output under: the alias after AS, or the
\* column itself
OutputAlias(column) == column[Len(column)]

\* C13 (as claimed): in one ConvertToSelect call no two joins have the same
\* join alias and no two selected columns the same output alias.
C13_AliasesCollisionFree ==
    conv.done =>
       /\ \A i, j \in 1..Len(conv.Joins) :
             i # j => conv.Joins[i].Alias # conv.Joins[j].Alias
       /\ \A i, j \in 1..Len(conv.Columns) :
             i # j => OutputAlias(conv.Columns[i]) # OutputAlias(conv.Columns[j])

(***************************************************************************)
(* Specification of value completion.  Init draws what the resolver of     *)
(* Query.user returned and the selected field; CompleteValueCall is        *)
(* completeValue on them.  exec = [value, field, done, result].            *)
(***************************************************************************)
MaxItems == 2

\* objects a resolver returns
UserMaps ==
    << VMap(<< <<n_id, VInt(18)>>, <<n_name, VStr("John")>> >>),
       VMap(<< <<n_name, Nil>> >>) >>

\* the elements of the lists a resolver returns
ListItems ==
    <<Nil, VInt(18), VStr("John"), UserMaps[1], UserMaps[2],
      VList(<<UserMaps[1], Nil>>), VList(<<>>)>>

\* the selected field: user, user { name }, u: user { id n: name }, and a
\* user whose selection set holds no field
CompletedFields ==
    << Leaf(n_user),
       Field(n_user, <<>>, NoArguments, SelectionOf(<<Leaf(n_name)>>, FALSE)),
       Field(n_user, <<"u">>, NoArguments,
             SelectionOf(<<Leaf(n_id), Field(n_name, <<"n">>, NoArguments, NilSelection)>>,
                         FALSE)),
       Field(n_user, <<>>, NoArguments, SelectionOf(<<>>, FALSE)) >>

InitComplete ==
    /\ marshaler = NewPostgreSQLMarshaler
    /\ issued = <<>>
    /\ conv = NoCall
    /\ procs = NoProcs
    /\ coll = NoCollect
    /\ \E f \in 1..Len(CompletedFields) :
         \/ \E v \in 1..Len(ListItems) :
              exec = [value |-> ListItems[v], field |-> f, done |-> FALSE, result |-> Nil]
         \/ \E n \in 0..MaxItems :
              \E items \in [1..n -> 1..Len(ListItems)] :
                 exec = [value |-> VList([k \in 1..n |-> ListItems[items[k]]]),
                         field |-> f, done |-> FALSE, result |-> Nil]

\* completeValue(ctx, field, "Query", value, path) of an executor without
\* resolvers for the fields of User
CompleteValueCall ==
    /\ "value" \in DOMAIN exec /\ ~exec.done
    /\ LET a == append(<<>>, NilSlice, PathKey(GetName(CompletedFields[exec.field])))
       IN  exec' = [exec EXCEPT
                      !.done = TRUE,
                      !.result =
                         completeValue([schema |-> Schema,
                                        resolverMap |-> [k \in {} |-> Nil],
                                        astCache |-> {}],
                                       CompletedFields[exec.field], n_Query, exec.value,
                                       a.slice,
                                       [NewRequestContext EXCEPT !.heap = a.heap]).value]
    /\ UNCHANGED <<marshaler, issued, conv, procs, coll>>

NextComplete == CompleteValueCall

SpecComplete == InitComplete /\ [][NextComplete]_vars

\* the object the nested selection of a field gives on a map: under every
\* response key the entry of the map for the field's name, null without one
SelectedOn(field, value) ==
    LET fields == field.Selections.Fields
    IN  Obj([k \in {GetName(fields[i]) : i \in 1..Len(fields)} |->
               LET sub == fields[CHOOSE i \in 1..Len(fields) : GetName(fields[i]) = k]
               IN  IF MapHas(value[2], sub.Name) THEN MapGet(value[2], sub.Name) ELSE Nil])

\* the completion of a value for a field, by the kind of the value
RECURSIVE Completion(_, _)
Completion(field, value) ==
    IF IsNil(value) THEN Nil
    ELSE IF IsList(value)
    THEN VList([i \in 1..Len(value[2]) |-> Completion(field, value[2][i])])
    ELSE IF IsMap(value) /\ HasSelection(field) THEN SelectedOn(field, value)
    ELSE value

\* C24: null completes to null; a list of length n to the list of length n
\* of the completions of its elements for the same field; a map is replaced
\* by the result of the field's nested selection on it exactly when the
\* field has a non-empty nested selection; every other value is unchanged.
C24_CompletionByKind ==
    ("value" \in DOMAIN exec /\ exec.done) =>
       exec.result = Completion(CompletedFields[exec.field], exec.value)

\* u: user { id n: name } on the list [map, [map, null]]
C24_Witness ==
    /\ "value" \in DOMAIN exec /\ exec.done
    /\ exec.field = 3
    /\ exec.value = VList(<<UserMaps[1], VList(<<UserMaps[1], Nil>>)>>)
    /\ exec.result =
         VList(<<Obj((n_id :> VInt(18)) @@ (<<"n">> :> VStr("John"))),
                 VList(<<Obj((n_id :> VInt(18)) @@ (<<"n">> :> VStr("John"))), Nil>>)>>)

(***************************************************************************)
(* Specification of BuildSelect on options of every shape.  Init draws     *)
(* the options clause by clause; BuildSelectCall is BuildSelect, which     *)
(* validates and assembles.                                                *)
(***************************************************************************)
ColumnA == <<Raw(<<"a">>)>>
ColumnB == <<Raw(<<"b">>)>>
OrderByColumn(column, direction) == [Column |-> column, Direction |-> direction]
JoinOf(joinType) ==
    [EmptyJoin EXCEPT !.JoinType = joinType, !.TableName = <<QuoteIdentifier(n_posts)>>,
                      !.Alias = <<"p">>,
                      !.On = <<Raw(<<"u">>), Kw("."), QuoteIdentifier(n_id), Kw("="),
                               Raw(<<"p">>), Kw("."), QuoteIdentifier(n_user_id)>>]

DistinctOnChoices == << <<>>, <<ColumnA>>, <<ColumnA, ColumnB>> >>
GroupByChoices == << <<>>, <<ColumnB>> >>
HavingChoices == << <<>>, << <<Raw(<<"h">>)>> >> >>
OrderByChoices ==
    << <<>>,
       <<OrderByColumn(ColumnA, OrderAsc)>>,
       <<OrderByColumn(ColumnB, OrderDesc)>>,
       <<OrderByColumn(ColumnA, OrderDesc), OrderByColumn(ColumnB, OrderAsc)>>,
       <<OrderByColumn(ColumnB, OrderAsc), OrderByColumn(ColumnA, OrderAsc)>> >>
JoinChoices ==
    << <<>>,
       <<JoinOf(JoinInner)>>,
       <<JoinOf(JoinLeft)>>,
       <<JoinOf(JoinRight)>>,
       <<JoinOf(JoinFull)>>,
       <<JoinOf(JoinInner),
         [JoinOf(JoinLeftLateral) EXCEPT
             !.SubqueryColumns = <<ColumnA>>,
             !.SubqueryWhere = <<QuoteIdentifier(n_user_id), Kw("="), Raw(<<"u">>), Kw("."),
                                 QuoteIdentifier(n_id)>>,
             !.SubqueryOrderBy = ColumnA,
             !.Limit = <<Lit(VInt(2))>>]>>,
       <<[JoinOf(JoinCross) EXCEPT !.On = <<>>, !.Limit = <<Lit(VInt(2))>>],
         JoinOf(JoinLeft)>> >>
LockChoices ==
    << [ForUpdate |-> FALSE, ForUpdateOf |-> <<>>],
       [ForUpdate |-> TRUE, ForUpdateOf |-> <<>>],
       [ForUpdate |-> TRUE, ForUpdateOf |-> <<ColumnA>>] >>
PlainChoices ==
    << [Where |-> <<>>, NullsFirst |-> "nil", Limit |-> <<>>, Offset |-> <<>>],
       [Where |-> <<ColumnA>>, NullsFirst |-> "nil", Limit |-> <<Lit(VInt(2))>>,
        Offset |-> <<>>],
       [Where |-> <<ColumnA, ColumnB>>, NullsFirst |-> "true", Limit |-> <<Lit(VInt(2))>>,
        Offset |-> <<Lit(VInt(18))>>] >>

InitBuild ==
    /\ marshaler = NewPostgreSQLMarshaler
    /\ issued = <<>>
    /\ procs = NoProcs
    /\ coll = NoCollect
    /\ exec = NoExecute
    /\ \E d \in 1..Len(DistinctOnChoices), g \in 1..Len(GroupByChoices),
          h \in 1..Len(HavingChoices), o \in 1..Len(OrderByChoices),
          j \in 1..Len(JoinChoices), l \in 1..Len(LockChoices), p \in 1..Len(PlainChoices),
          c \in BOOLEAN :
         conv = [opts |-> [EmptySelectOptions EXCEPT
                             !.TableName = <<QuoteIdentifier(n_users)>>,
                             !.TableAlias = <<"u">>,
                             !.Columns = IF c THEN <<ColumnA, ColumnB>> ELSE <<>>,
                             !.DistinctOn = DistinctOnChoices[d],
                             !.GroupBy = GroupByChoices[g],
                             !.Having = HavingChoices[h],
                             !.OrderBy = OrderByChoices[o],
                             !.Joins = JoinChoices[j],
                             !.ForUpdate = LockChoices[l].ForUpdate,
                             !.ForUpdateOf = LockChoices[l].ForUpdateOf,
                             !.Where = PlainChoices[p].Where,
                             !.NullsFirst = PlainChoices[p].NullsFirst,
                             !.Limit = PlainChoices[p].Limit,
                             !.Offset = PlainChoices[p].Offset],
                 done |-> FALSE, Query |-> <<>>, Errors |-> <<>>]

BuildSelectCall ==
    /\ "opts" \in DOMAIN conv
    /\ ~conv.done
    /\ LET built == BuildSelect(conv.opts)
       IN  conv' = [conv EXCEPT !.done = TRUE, !.Query = built.query,
                                !.Errors = built.errors]
    /\ UNCHANGED <<marshaler, issued, procs, coll, exec>>

NextBuild == BuildSelectCall

SpecBuild == InitBuild /\ [][NextBuild]_vars

\* the DISTINCT ON columns are the leading ORDER BY columns, in the same order
DistinctOnLeadsOrderBy ==
    /\ Len(conv.opts.DistinctOn) <= Len(conv.opts.OrderBy)
    /\ \A i \in 1..Len(conv.opts.DistinctOn) :
          conv.opts.OrderBy[i].Column = conv.opts.DistinctOn[i]

HasJoinOf(types) ==
    \E i \in 1..Len(conv.opts.Joins) : conv.opts.Joins[i].JoinType \in types

\* the conditions of the claim other than the one on DISTINCT ON and ORDER BY
OtherContradictions ==
    \/ Len(conv.opts.DistinctOn) > 0 /\ Len(conv.opts.GroupBy) > 0
    \/ Len(conv.opts.Having) > 0 /\ Len(conv.opts.GroupBy) = 0
    \/ /\ conv.opts.ForUpdate /\ Len(conv.opts.ForUpdateOf) = 0
       /\ HasJoinOf({JoinLeft, JoinRight, JoinFull})
    \/ Len(conv.opts.Having) > 0 /\ HasJoinOf({JoinLeft})

\* C14 (as claimed): Validate returns a finding exactly when DistinctOn and
\* GroupBy are both set, or DistinctOn is set and is not the leading ORDER BY
\* columns, or Having is set without GroupBy, or FOR UPDATE without lock
\* tables meets an outer join, or Having meets a LEFT JOIN.
C14_FindingsIffContradiction ==
    conv.done =>
       (Len(conv.Errors) > 0
          <=> \/ OtherContradictions
              \/ Len(conv.opts.DistinctOn) > 0 /\ ~DistinctOnLeadsOrderBy)

\* C14 (amended): the same, the DISTINCT ON columns being compared with
\* ORDER BY only when ORDER BY is not empty.
C14_FindingsIffContradictionWithOrderBy ==
    conv.done =>
       (Len(conv.Errors) > 0
          <=> \/ OtherContradictions
              \/ /\ Len(conv.opts.DistinctOn) > 0 /\ Len(conv.opts.OrderBy) > 0
                 /\ ~DistinctOnLeadsOrderBy)

\* DISTINCT ON (a, b) ORDER BY a alone was validated: one finding
C14_Witness ==
    /\ conv.done
    /\ Len(conv.opts.DistinctOn) = 2 /\ Len(conv.opts.OrderBy) = 1
    /\ conv.opts.OrderBy[1].Column = conv.opts.DistinctOn[1]
    /\ ~OtherContradictions
    /\ Len(conv.Errors) = 1

\* the place of a clause keyword in the fixed order of a SELECT, 0 for a
\* token that opens no clause
ClauseRank(t) ==
    CASE t = Kw("SELECT") -> 1
      [] t = Kw("DISTINCT ON (") -> 2
      [] t = Kw("FROM") -> 3
      [] t \in {Kw("INNER JOIN"), Kw("LEFT JOIN"), Kw("RIGHT JOIN"), Kw("FULL JOIN"),
                Kw("CROSS JOIN"), Kw("CROSS JOIN LATERAL"), Kw("LEFT JOIN LATERAL")} -> 4
      [] t = Kw("WHERE") -> 5
      [] t = Kw("GROUP BY") -> 6
      [] t = Kw("HAVING") -> 7
      [] t = Kw("ORDER BY") -> 8
      [] t \in {Kw("NULLS FIRST"), Kw("NULLS LAST")} -> 9
      [] t = Kw("LIMIT") -> 10
      [] t = Kw("OFFSET") -> 11
      [] t = Kw("FOR UPDATE") -> 12
      [] t = Kw("OF") -> 13
      [] OTHER -> 0

\* the number of parentheses open at position i of a text
ParenDepth(q, i) ==
    Cardinality({k \in 1..(i - 1) : q[k] \in {Kw("("), Kw("DISTINCT ON (")}})
    - Cardinality({k \in 1..(i - 1) : q[k] = Kw(")")})

\* the positions of the clause keywords of a text outside every parenthesis
TopLevelClauses(q) ==
    SelectSeq([k \in 1..Len(q) |-> k],
              LAMBDA k : ClauseRank(q[k]) > 0 /\ ParenDepth(q, k) = 0)

CarriesSubquery(j) ==
    \/ Len(j.SubqueryColumns) > 0 \/ j.SubqueryWhere # <<>>
    \/ j.SubqueryOrderBy # <<>> \/ j.Limit # <<>>

\* C16: the clauses of the text BuildSelect assembles are in the fixed
\* order, each at most once but JOIN; the JOIN clauses are those of
\* opts.Joins in their order; a join is a parenthesized subquery exactly
\* when it carries subquery metadata.
C16_ClausesInFixedOrder ==
    (conv.done /\ "opts" \in DOMAIN conv) =>
       LET q == conv.Query
           at == TopLevelClauses(q)
           joinsAt == SelectSeq(at, LAMBDA k : ClauseRank(q[k]) = 4)
       IN  /\ Len(at) >= 2 /\ at[1] = 1 /\ q[1] = Kw("SELECT")
           /\ \A n \in 1..(Len(at) - 1) :
                 \/ ClauseRank(q[at[n]]) < ClauseRank(q[at[n + 1]])
                 \/ ClauseRank(q[at[n]]) = 4 /\ ClauseRank(q[at[n + 1]]) = 4
           /\ Len(joinsAt) = Len(conv.opts.Joins)
           /\ \A n \in 1..Len(joinsAt) :
                 /\ <<q[joinsAt[n]]>> = FormatJoinType(conv.opts.Joins[n].JoinType)
                 /\ (q[joinsAt[n] + 1] = Kw("(")) <=> CarriesSubquery(conv.opts.Joins[n])

\* a statement with every clause and a lateral subquery was built
C16_Witness ==
    /\ conv.done /\ "opts" \in DOMAIN conv
    /\ Len(conv.opts.DistinctOn) > 0 /\ Len(conv.opts.GroupBy) > 0
    /\ Len(conv.opts.Having) > 0 /\ Len(conv.opts.OrderBy) > 0
    /\ Len(conv.opts.Where) > 0 /\ conv.opts.Offset # <<>>
    /\ Len(conv.opts.ForUpdateOf) > 0 /\ conv.opts.NullsFirst # "nil"
    /\ Len(conv.opts.Joins) = 2 /\ conv.opts.Joins[2].JoinType = JoinLeftLateral
    /\ Len(TopLevelClauses(conv.Query)) = 14

(***************************************************************************)
(* Specification of the findings of a SELECT: BuildSelect on options of    *)
(* every shape, and ConvertToSelect on the selections of SpecRelations.    *)
(***************************************************************************)
InitFindings == InitBuild \/ InitRelations

NextFindings == BuildSelectCall \/ ConvertRelationsCall

SpecFindings == InitFindings /\ [][NextFindings]_vars

\* the options the statement of conv was built from
BuiltOptions == IF "opts" \in DOMAIN conv THEN conv.opts ELSE conv.Options

\* the field tags of the contradictions the built options hold
ContradictionTags ==
    LET o == BuiltOptions
        outer == \E i \in 1..Len(o.Joins) :
                    o.Joins[i].JoinType \in {JoinLeft, JoinRight, JoinFull}
        left == \E i \in 1..Len(o.Joins) : o.Joins[i].JoinType = JoinLeft
        leads == /\ Len(o.DistinctOn) <= Len(o.OrderBy)
                 /\ \A i \in 1..Len(o.DistinctOn) : o.OrderBy[i].Column = o.DistinctOn[i]
    IN  {t \in {"DistinctOn/GroupBy", "DistinctOn/OrderBy", "ForUpdate/Join", "Having",
                "Join/Having"} :
           \/ t = "DistinctOn/GroupBy" /\ Len(o.DistinctOn) > 0 /\ Len(o.GroupBy) > 0
           \/ t = "DistinctOn/OrderBy" /\ Len(o.DistinctOn) > 0 /\ Len(o.OrderBy) > 0 /\ ~leads
           \/ t = "ForUpdate/Join" /\ o.ForUpdate /\ Len(o.ForUpdateOf) = 0 /\ outer
           \/ t = "Having" /\ Len(o.Having) > 0 /\ Len(o.GroupBy) = 0
           \/ t = "Join/Having" /\ Len(o.Having) > 0 /\ left}

\* C15: findings never block generation: BuildSelect returns the statement
\* text together with one finding for every contradiction of the options,
\* and ConvertToSelect returns them with a nil error and a non-empty Query.
C15_FindingsDoNotBlock ==
    conv.done =>
       /\ Len(conv.Query) > 0
       /\ conv.Query[1] = Kw("SELECT")
       /\ \E k \in 2..Len(conv.Query) :
             conv.Query[k] = Kw("FROM") /\ k < Len(conv.Query)
       /\ Len(conv.Errors) = Cardinality(ContradictionTags)
       /\ {conv.Errors[i].Field : i \in 1..Len(conv.Errors)} = ContradictionTags
       /\ "selection" \in DOMAIN conv => conv.ok

\* a statement with HAVING, no GROUP BY and a LEFT JOIN was built: two findings
C15_Witness ==
    /\ conv.done
    /\ "opts" \in DOMAIN conv
    /\ Len(conv.Errors) = 2
    /\ conv.Errors[1].Field = "Having"
    /\ Len(conv.Query) > 0


(***************************************************************************)
(* Specification of the _and filter: Init draws the key and the list of    *)
(* the filters it joins, the action converts a select with that where.     *)
(***************************************************************************)
MaxConditions == 3

\* the filters an _and list is made of
AndFilters ==
    << << <<n_age, VMap(<< <<"_gt", VInt(18)>> >>)>> >>,
       << <<n_age, VMap(<< <<"_lt", VInt(65)>> >>)>> >>,
       << <<n_userName, VStr("John")>> >>,
       << <<n_name, Nil>> >>,
       << <<n_age, VMap(<< <<"_is_null", VBool(TRUE)>> >>)>> >>,
       << <<K_or, VList(<< VMap(<< <<n_age, VInt(18)>> >>),
                           VMap(<< <<n_name, VStr("John")>> >>) >>)>> >> >>

\* the operands of the i-th of these filters, in the order it names them
AndOperands(i) ==
    CASE i = 1 -> <<VInt(18)>>
      [] i = 2 -> <<VInt(65)>>
      [] i = 3 -> <<VStr("John")>>
      [] i = 4 -> <<Nil>>
      [] i = 5 -> <<VBool(TRUE)>>
      [] i = 6 -> <<VInt(18), VStr("John")>>

\* the condition of the i-th of these filters on alias u, its operands being
\* written as the texts in p
AndCondition(i, p) ==
    CASE i = 1 -> <<Raw(<<"u">>), Kw("."), QuoteIdentifier(n_age), Kw(">"), p[1]>>
      [] i = 2 -> <<Raw(<<"u">>), Kw("."), QuoteIdentifier(n_age), Kw("<"), p[1]>>
      [] i = 3 -> <<Raw(<<"u">>), Kw("."), QuoteIdentifier(n_user_name), Kw("="), p[1]>>
      [] i = 4 -> <<Raw(<<"u">>), Kw("."), QuoteIdentifier(n_name), Kw("="), p[1]>>
      [] i = 5 -> <<Raw(<<"u">>), Kw("."), QuoteIdentifier(n_age), Kw("IS NULL")>>
      [] i = 6 -> <<Kw("("), Raw(<<"u">>), Kw("."), QuoteIdentifier(n_age), Kw("="), p[1],
                    Kw("OR"), Raw(<<"u">>), Kw("."), QuoteIdentifier(n_name), Kw("="), p[2],
                    Kw(")")>>

InitFilter ==
    /\ marshaler \in LeftoverMarshalers
    /\ issued = <<>>
    /\ procs = NoProcs
    /\ coll = NoCollect
    /\ exec = NoExecute
    /\ \E key \in {K_and, K_AND}, n \in 0..MaxConditions :
         \E list \in [1..n -> 1..Len(AndFilters)] :
            conv = [key |-> key, list |-> list, done |-> FALSE,
                    Query |-> <<>>, Params |-> <<>>, Where |-> <<>>]

\* ConvertToSelect with where: {key: [F1, ..., Fk]}
ReturnFilter(r) ==
    /\ conv' = [conv EXCEPT !.done = TRUE, !.Query = r.Query, !.Params = r.Params,
                            !.Where = r.Options.Where]
    /\ marshaler' = r.m
    /\ UNCHANGED <<issued, concVars, collVars, execVars>>

ConvertAndFilterCall ==
    /\ "list" \in DOMAIN conv /\ ~conv.done
    /\ ReturnFilter(
          ConvertToSelect(sqlConverter, marshaler,
             [ReturnType |-> Named(n_User), Selection |-> NilSelection,
              Arguments |->
                 "where" :> VMap(<< <<conv.key,
                                      VList([i \in 1..Len(conv.list) |->
                                               VMap(AndFilters[conv.list[i]])])>> >>)]))

NextFilter == ConvertAndFilterCall

SpecFilter == InitFilter /\ [][NextFilter]_vars

\* the operands of the filters of a list, in list order
RECURSIVE OperandsInListOrder(_)
OperandsInListOrder(list) ==
    IF Len(list) = 0 THEN <<>>
    ELSE AndOperands(list[1]) \o OperandsInListOrder(Tail(list))

\* the conditions of the filters of a list, texts being what is written for
\* each operand after the first `before` of them
RECURSIVE ConditionsInListOrder(_, _, _)
ConditionsInListOrder(list, before, texts) ==
    IF Len(list) = 0 THEN <<>>
    ELSE LET n == Len(AndOperands(list[1]))
         IN  <<AndCondition(list[1], SubSeq(texts, before + 1, before + n))>>
             \o ConditionsInListOrder(Tail(list), before + n, texts)

\* the fragment an _and list gave: the one entry of opts.Where, none for an
\* empty list
EmittedFragment == IF Len(conv.Where) = 0 THEN <<>> ELSE conv.Where[1]

\* C17 (as claimed): the fragment of {_and: [F1..Fk]} is the conditions of
\* F1..Fk joined with AND in list order, the n-th operand in that order being
\* written $n, and Params is the operands in that order.
C17_AndKeepsListOrder ==
    (conv.done /\ "list" \in DOMAIN conv) =>
       LET all == OperandsInListOrder(conv.list)
           numbered == [n \in 1..Len(all) |-> Placeholder(n)]
       IN  /\ Len(conv.Where) <= 1
           /\ EmittedFragment =
                 Join(ConditionsInListOrder(conv.list, 0, numbered), <<Kw("AND")>>)
           /\ conv.Params = all

\* the operands that are not null, in their order
NonNull(operands) == SelectSeq(operands, LAMBDA v : ~IsNil(v))

\* C17 (amended): the same, a null operand being written NULL with no
\* placeholder and no entry of Params; the n-th operand that is not null is
\* written $n and Params is the operands that are not null, in list order.
C17_AndKeepsListOrderOfBoundOperands ==
    (conv.done /\ "list" \in DOMAIN conv) =>
       LET all == OperandsInListOrder(conv.list)
           numbered ==
              [n \in 1..Len(all) |->
                 IF IsNil(all[n]) THEN Kw("NULL")
                 ELSE Placeholder(Len(NonNull(SubSeq(all, 1, n))))]
       IN  /\ Len(conv.Where) <= 1
           /\ EmittedFragment =
                 Join(ConditionsInListOrder(conv.list, 0, numbered), <<Kw("AND")>>)
           /\ conv.Params = NonNull(all)

\* {_and: [{age: {_gt: 18}}, {age: {_lt: 65}}]} gave age > $1 AND age < $2
\* with Params = [18, 65]
C17_Witness ==
    /\ conv.done /\ "list" \in DOMAIN conv
    /\ conv.key = K_and /\ conv.list = <<1, 2>>
    /\ conv.Params = <<VInt(18), VInt(65)>>
    /\ conv.Where = << <<Raw(<<"u">>), Kw("."), QuoteIdentifier(n_age), Kw(">"), Placeholder(1),
                         Kw("AND"),
                         Raw(<<"u">>), Kw("."), QuoteIdentifier(n_age), Kw("<"), Placeholder(2)>> >>


(***************************************************************************)
(* Specification of the _or and _not filters: Init draws the key, the      *)
(* sub-filters F1..Fk (each a filter of one or two entries, one sub-filter *)
(* under _not) and a plain condition of the enclosing filter before or     *)
(* after the key; the action converts a select with that where.            *)
(***************************************************************************)
MaxGroups == 2

\* the sub-filters: each the entries of one filter object, as indices of
\* AndFilters, in range order
GroupFilters == << <<1>>, <<3>>, <<4>>, <<5>>, <<6>>, <<1, 3>>, <<5, 3>>, <<4, 1>> >>

\* the entries of a sub-filter
RECURSIVE FilterOf(_)
FilterOf(indices) ==
    IF Len(indices) = 0 THEN <<>>
    ELSE AndFilters[indices[1]] \o FilterOf(Tail(indices))

\* the sibling entry of the enclosing filter, {userName: "John"}, as its
\* index in AndFilters
SiblingEntry == <<3>>

InitGroup ==
    /\ marshaler \in LeftoverMarshalers
    /\ issued = <<>>
    /\ procs = NoProcs
    /\ coll = NoCollect
    /\ exec = NoExecute
    /\ \E key \in {K_or, K_OR, K_not, K_NOT}, n \in 1..MaxGroups,
          sibling \in {"none", "before", "after"} :
         \E subs \in [1..n -> 1..Len(GroupFilters)] :
            /\ key \in {K_not, K_NOT} => n = 1
            /\ conv = [group |-> key, subs |-> subs, sibling |-> sibling, done |-> FALSE,
                       Query |-> <<>>, Params |-> <<>>, Where |-> <<>>]

\* the value under the key: the list of F1..Fk for _or, the object F for _not
GroupValue ==
    IF conv.group \in {K_or, K_OR}
    THEN VList([i \in 1..Len(conv.subs) |-> VMap(FilterOf(GroupFilters[conv.subs[i]]))])
    ELSE VMap(FilterOf(GroupFilters[conv.subs[1]]))

\* the enclosing filter
GroupFilter ==
    (IF conv.sibling = "before" THEN AndFilters[SiblingEntry[1]] ELSE <<>>)
    \o << <<conv.group, GroupValue>> >>
    \o (IF conv.sibling = "after" THEN AndFilters[SiblingEntry[1]] ELSE <<>>)

ConvertGroupFilterCall ==
    /\ "subs" \in DOMAIN conv /\ ~conv.done
    /\ ReturnFilter(
          ConvertToSelect(sqlConverter, marshaler,
             [ReturnType |-> Named(n_User), Selection |-> NilSelection,
              Arguments |-> "where" :> VMap(GroupFilter)]))

NextGroup == ConvertGroupFilterCall

SpecGroup == InitGroup /\ [][NextGroup]_vars

\* the entries of the whole filter in the order it names them, as indices
\* of AndFilters: the sibling before, the entries of F1..Fk, the sibling after
RECURSIVE SubEntries(_)
SubEntries(subs) ==
    IF Len(subs) = 0 THEN <<>>
    ELSE GroupFilters[subs[1]] \o SubEntries(Tail(subs))

GroupEntries ==
    (IF conv.sibling = "before" THEN SiblingEntry ELSE <<>>)
    \o SubEntries(conv.subs)
    \o (IF conv.sibling = "after" THEN SiblingEntry ELSE <<>>)

\* what is written for each operand of the whole filter: NULL for null,
\* otherwise the placeholder of its place among the marshaled operands
GroupTexts ==
    LET all == OperandsInListOrder(GroupEntries)
    IN  [n \in 1..Len(all) |->
           IF IsNil(all[n]) THEN Kw("NULL")
           ELSE Placeholder(Len(NonNull(SubSeq(all, 1, n))))]

\* the number of operands named before the i-th sub-filter
OperandsBefore(i) ==
    Len(OperandsInListOrder(
           (IF conv.sibling = "before" THEN SiblingEntry ELSE <<>>)
           \o SubEntries(SubSeq(conv.subs, 1, i - 1))))

\* Fi as the AND of its own conditions
SubGroup(i) ==
    Join(ConditionsInListOrder(GroupFilters[conv.subs[i]], OperandsBefore(i), GroupTexts),
         <<Kw("AND")>>)

\* the group the key stands for
ExpectedGroup ==
    IF conv.group \in {K_or, K_OR}
    THEN <<Kw("(")>> \o Join([i \in 1..Len(conv.subs) |-> SubGroup(i)], <<Kw("OR")>>)
         \o <<Kw(")")>>
    ELSE <<Kw("NOT (")>> \o SubGroup(1) \o <<Kw(")")>>

\* the sibling condition, written with the placeholder of its place
SiblingCondition ==
    AndCondition(SiblingEntry[1],
       <<IF conv.sibling = "before" THEN GroupTexts[1] ELSE GroupTexts[Len(GroupTexts)]>>)

\* C23: {_or: [F1..Fk]} (or OR) gives one parenthesized group, each Fi the
\* AND of its own conditions, the k groups joined with OR in list order;
\* {_not: F} (or NOT) gives NOT ( conditions of F joined with AND ); the
\* result is one conjunct of the enclosing filter, and the placeholders are
\* numbered in the order they appear in the text.
C23_OrAndNotAreOneGroup ==
    (conv.done /\ "subs" \in DOMAIN conv) =>
       /\ Len(conv.Where) = 1
       /\ conv.Where[1] =
             Join((IF conv.sibling = "before" THEN <<SiblingCondition>> ELSE <<>>)
                  \o <<ExpectedGroup>>
                  \o (IF conv.sibling = "after" THEN <<SiblingCondition>> ELSE <<>>),
                  <<Kw("AND")>>)
       /\ LET ph == PlaceholdersOf(conv.Where[1])
          IN  \A i, j \in 1..Len(ph) : i < j => ph[i][2] < ph[j][2]

\* {userName: "John", _or: [{age: {_gt: 18}, userName: "John"}, {name: null}]}
\* gave user_name = $1 AND (age > $2 AND user_name = $3 OR name = NULL)
C23_Witness ==
    /\ conv.done /\ "subs" \in DOMAIN conv
    /\ conv.group = K_or /\ conv.sibling = "before" /\ conv.subs = <<6, 3>>
    /\ conv.Params = <<VStr("John"), VInt(18), VStr("John")>>
    /\ conv.Where =
         << <<Raw(<<"u">>), Kw("."), QuoteIdentifier(n_user_name), Kw("="), Placeholder(1),
              Kw("AND"), Kw("("),
              Raw(<<"u">>), Kw("."), QuoteIdentifier(n_age), Kw(">"), Placeholder(2),
              Kw("AND"),
              Raw(<<"u">>), Kw("."), QuoteIdentifier(n_user_name), Kw("="), Placeholder(3),
              Kw("OR"),
              Raw(<<"u">>), Kw("."), QuoteIdentifier(n_name), Kw("="), Kw("NULL"),
              Kw(")")>> >>


(***************************************************************************)
(* Specification of the orderBy argument: Init draws the entries and the   *)
(* form (one object, or a list), the action converts a select with it.     *)
(***************************************************************************)
MaxOrderBy == 2

\* the entries of an orderBy argument
OrderByEntries ==
    << VMap(<< <<"field", VStr(n_name)>> >>),
       VMap(<< <<"field", VStr(n_userName)>>, <<"direction", VStr(<<"D", "E", "S", "C">>)>> >>),
       VMap(<< <<"field", VStr(n_name)>>, <<"direction", VStr(<<"d", "e", "s", "c">>)>> >>),
       VMap(<< <<"field", VStr(n_age)>>, <<"direction", VStr(<<"A", "S", "C">>)>> >>),
       VMap(<< <<"direction", VStr(<<"D", "E", "S", "C">>)>> >>),
       VMap(<< <<"field", VInt(18)>> >>) >>

\* the ORDER BY terms the i-th of these entries stands for on alias u: the
\* quoted snake-case column and one direction keyword, none without a
\* string field
OrderByTerms(i) ==
    CASE i = 1 -> << <<Raw(<<"u">>), Kw("."), QuoteIdentifier(n_name), Kw("ASC")>> >>
      [] i = 2 -> << <<Raw(<<"u">>), Kw("."), QuoteIdentifier(n_user_name), Kw("DESC")>> >>
      [] i = 3 -> << <<Raw(<<"u">>), Kw("."), QuoteIdentifier(n_name), Kw("DESC")>> >>
      [] i = 4 -> << <<Raw(<<"u">>), Kw("."), QuoteIdentifier(n_age), Kw("ASC")>> >>
      [] OTHER -> <<>>

InitOrderBy ==
    /\ marshaler \in LeftoverMarshalers
    /\ issued = <<>>
    /\ procs = NoProcs
    /\ coll = NoCollect
    /\ exec = NoExecute
    /\ \/ \E i \in 1..Len(OrderByEntries) :
            conv = [form |-> "object", entries |-> <<i>>, done |-> FALSE, Query |-> <<>>]
       \/ \E n \in 0..MaxOrderBy :
            \E entries \in [1..n -> 1..Len(OrderByEntries)] :
               conv = [form |-> "list", entries |-> entries, done |-> FALSE, Query |-> <<>>]

\* ConvertToSelect with orderBy: {field, direction} or orderBy: [{field, direction}, ...]
ReturnOrderBy(r) ==
    /\ conv' = [conv EXCEPT !.done = TRUE, !.Query = r.Query]
    /\ marshaler' = r.m
    /\ UNCHANGED <<issued, concVars, collVars, execVars>>

ConvertOrderByCall ==
    /\ "entries" \in DOMAIN conv /\ ~conv.done
    /\ ReturnOrderBy(
          ConvertToSelect(sqlConverter, marshaler,
             [ReturnType |-> Named(n_User), Selection |-> NilSelection,
              Arguments |->
                 "orderBy" :>
                    IF conv.form = "object" THEN OrderByEntries[conv.entries[1]]
                    ELSE VList([i \in 1..Len(conv.entries) |->
                                  OrderByEntries[conv.entries[i]]])]))

NextOrderBy == ConvertOrderByCall

SpecOrderBy == InitOrderBy /\ [][NextOrderBy]_vars

\* the terms of the entries of an orderBy argument, in list order
RECURSIVE TermsInListOrder(_)
TermsInListOrder(entries) ==
    IF Len(entries) = 0 THEN <<>>
    ELSE OrderByTerms(entries[1]) \o TermsInListOrder(Tail(entries))

\* what follows ORDER BY in a statement with no later clause
OrderByTokens(q) ==
    LET at == {k \in 1..Len(q) : q[k] = Kw("ORDER BY")}
    IN  IF at = {} THEN <<>> ELSE SubSeq(q, (CHOOSE k \in at : TRUE) + 1, Len(q))

\* C18: in either form, every entry with a string field gives one ORDER BY
\* term, in list order: the quoted snake-case column and exactly one
\* direction keyword, DESC when direction is DESC ignoring case, ASC otherwise.
C18_OrderByFormsAgree ==
    (conv.done /\ "entries" \in DOMAIN conv) =>
       OrderByTokens(conv.Query) = Join(TermsInListOrder(conv.entries), <<Kw(",")>>)


(***************************************************************************)
(* Specification of name resolution: a field of the schema is built, then  *)
(* overrides are registered on a new converter, then a mutation with a     *)
(* RETURNING list is converted.  conv.tables and conv.columns record the   *)
(* registrations made, latest first.                                       *)
(***************************************************************************)
MaxRegistrations == 2

n_people == <<"p", "e", "o", "p", "l", "e">>
n_UserProfile == <<"U", "s", "e", "r", "P", "r", "o", "f", "i", "l", "e">>
n_user_profile == <<"u", "s", "e", "r", "_", "p", "r", "o", "f", "i", "l", "e">>

ResolvedTypes == {n_User, n_UserProfile}
ResolvedFields == {n_id, n_userName}
\* the fields that get overrides
MappedFields == {n_userName}
TableNames == {n_people}
ColumnNames == {n_name, n_title}

\* the RETURNING lists of the mutations
ReturningLists == {<<>>, <<n_userName>>, <<n_id, n_userName>>}

\* the fields of the schema: no directive, @sql(column: "title"),
\* @deprecated @sql(table: "users", column: "name"), @sql(relation: "hasMany")
SchemaFields ==
    << [Name |-> n_userName, Directives |-> <<>>],
       [Name |-> n_userName,
        Directives |-> <<AstDirective("sql",
                           <<AstArgument("column", <<"StringValue", n_title>>)>>)>>],
       [Name |-> n_name,
        Directives |-> <<AstDirective("deprecated", <<>>),
                         AstDirective("sql",
                           <<AstArgument("table", <<"StringValue", n_users>>),
                             AstArgument("column", <<"StringValue", n_name>>)>>)>>],
       [Name |-> n_posts,
        Directives |-> <<AstDirective("sql",
                           <<AstArgument("relation",
                                <<"StringValue", <<"h", "a", "s", "M", "a", "n", "y">> >>)>>)>>] >>

\* no mutation converted, no field built
NoMutation ==
    [op |-> "none", typeName |-> <<>>, returning |-> <<>>, columns |-> <<>>, Query |-> <<>>]
NoField == [Name |-> <<>>, SQLColumn |-> <<>>, SQLTable |-> <<>>, SQLRelation |-> <<>>]

InitNames ==
    /\ marshaler = NewPostgreSQLMarshaler
    /\ issued = <<>>
    /\ procs = NoProcs
    /\ coll = NoCollect
    /\ exec = NoExecute
    /\ conv = [tableMap |-> [k \in {} |-> <<>>], columnMap |-> [k \in {} |-> <<>>],
               tables |-> <<>>, columns |-> <<>>,
               mutation |-> NoMutation, declared |-> 0, field |-> NoField]

\* NewSQLConverter(schema, dialect) with the overrides registered so far
Converter ==
    [schema |-> Schema, tableMap |-> conv.tableMap, columnMap |-> conv.columnMap,
     joinConfig |-> [k \in {} |-> <<>>]]

MapTypeToTableCall ==
    /\ "tables" \in DOMAIN conv /\ conv.mutation.op = "none"
    /\ Len(conv.tables) + Len(conv.columns) < MaxRegistrations
    /\ \E T \in ResolvedTypes, t \in TableNames :
          conv' = [conv EXCEPT !.tableMap = MapTypeToTable(Converter, T, t).tableMap,
                               !.tables = <<[typeName |-> T, tableName |-> t]>> \o @]
    /\ UNCHANGED <<marshaler, issued, concVars, collVars, execVars>>

MapFieldToColumnCall ==
    /\ "columns" \in DOMAIN conv /\ conv.mutation.op = "none"
    /\ Len(conv.tables) + Len(conv.columns) < MaxRegistrations
    /\ \E T \in ResolvedTypes, f \in MappedFields, col \in ColumnNames :
          conv' = [conv EXCEPT !.columnMap = MapFieldToColumn(Converter, T, f, col).columnMap,
                               !.columns = <<[typeName |-> T, fieldName |-> f,
                                              columnName |-> col]>> \o @]
    /\ UNCHANGED <<marshaler, issued, concVars, collVars, execVars>>

\* ConvertToInsert, ConvertToUpdate or ConvertToDelete with a RETURNING list
ConvertReturningCall ==
    /\ "mutation" \in DOMAIN conv /\ conv.mutation.op = "none"
    /\ \E op \in {"insert", "update", "delete"}, T \in ResolvedTypes,
          returning \in ReturningLists :
          LET input == << <<n_userName, VStr("John")>> >>
              where == << <<n_id, VInt(18)>> >>
              r == CASE op = "insert" ->
                          ConvertToInsert(Converter, marshaler, T, input, returning)
                     [] op = "update" ->
                          ConvertToUpdate(Converter, marshaler, T, where, input, returning,
                             <<QuoteIdentifier(getColumnName(Converter, T, n_userName))>>)
                     [] op = "delete" ->
                          ConvertToDelete(Converter, marshaler, T, where, returning)
          IN  /\ conv' = [conv EXCEPT !.mutation = [op |-> op, typeName |-> T,
                                                    returning |-> returning,
                                                    columns |-> conv.columns,
                                                    Query |-> r.Query]]
              /\ marshaler' = r.m
    /\ UNCHANGED <<issued, concVars, collVars, execVars>>

\* buildTypeMap reaches one field of an object type; the schema is there
\* before the converter is
BuildTypeMapCall ==
    /\ "field" \in DOMAIN conv /\ conv.declared = 0 /\ conv.mutation.op = "none"
    /\ Len(conv.tables) + Len(conv.columns) = 0
    /\ \E d \in 1..Len(SchemaFields) :
          conv' = [conv EXCEPT !.declared = d, !.field = buildTypeMapField(SchemaFields[d])]
    /\ UNCHANGED <<marshaler, issued, concVars, collVars, execVars>>

NextNames ==
    \/ MapTypeToTableCall
    \/ MapFieldToColumnCall
    \/ ConvertReturningCall
    \/ BuildTypeMapCall

SpecNames == InitNames /\ [][NextNames]_vars

\* the table of a type by the rule: the latest override registered for it,
\* its snake case without one
ResolvedTable(tables, T) ==
    LET at == {i \in 1..Len(tables) : tables[i].typeName = T}
    IN  IF at = {} THEN toSnakeCase(T)
        ELSE tables[CHOOSE i \in at : \A j \in at : i <= j].tableName

\* the column of a field of a type by the rule
ResolvedColumn(columns, T, f) ==
    LET at == {i \in 1..Len(columns) :
                  columns[i].typeName = T /\ columns[i].fieldName = f}
    IN  IF at = {} THEN toSnakeCase(f)
        ELSE columns[CHOOSE i \in at : \A j \in at : i <= j].columnName

\* what follows RETURNING in a statement
ReturningTokens(q) ==
    LET at == {k \in 1..Len(q) : q[k] = Kw("RETURNING")}
    IN  IF at = {} THEN <<>> ELSE SubSeq(q, (CHOOSE k \in at : TRUE) + 1, Len(q))

\* the column the i-th schema field declares with @sql(column:), empty without
DeclaredColumn(d) ==
    CASE d = 2 -> n_title
      [] d = 3 -> n_name
      [] OTHER -> <<>>

\* C19: tables and columns resolve to the registered override, to the snake
\* case otherwise; the RETURNING list of every mutation is translated by that
\* rule; a field built from the schema has the column of its @sql directive,
\* the empty string without one.
C19_NamesResolveByOverrideOrSnakeCase ==
    "tables" \in DOMAIN conv =>
       /\ \A T \in ResolvedTypes : getTableName(Converter, T) = ResolvedTable(conv.tables, T)
       /\ \A T \in ResolvedTypes, f \in ResolvedFields :
             getColumnName(Converter, T, f) = ResolvedColumn(conv.columns, T, f)
       /\ conv.mutation.op # "none" =>
             conv.mutation.columns = conv.columns /\ ReturningTokens(conv.mutation.Query) =
                Join([i \in 1..Len(conv.mutation.returning) |->
                        <<QuoteIdentifier(ResolvedColumn(conv.mutation.columns,
                                                         conv.mutation.typeName,
                                                         conv.mutation.returning[i]))>>],
                     <<Kw(",")>>)
       /\ conv.declared # 0 => conv.field.SQLColumn = DeclaredColumn(conv.declared)

\* a delete returned the override of userName and the snake case of id, on a
\* type whose table is its snake case, after a column was declared by @sql
C19_Witness ==
    /\ "tables" \in DOMAIN conv
    /\ conv.mutation.op = "delete" /\ conv.mutation.typeName = n_UserProfile
    /\ conv.mutation.returning = <<n_id, n_userName>>
    /\ ReturningTokens(conv.mutation.Query) =
          <<QuoteIdentifier(n_id), Kw(","), QuoteIdentifier(n_title)>>
    /\ getTableName(Converter, n_UserProfile) = n_user_profile
    /\ getTableName(Converter, n_User) = n_people
    /\ conv.declared = 3 /\ conv.field.SQLColumn = n_name


(***************************************************************************)
(* graph.DataLoader.  procs = [dl, callers, calls];                        *)
(* dl = [cache, batch, batchErr, maxBatch]: cache maps                     *)
(* keys to values, batch is the pending keys, batchErr the channels of the *)
(* callers waiting for them (a channel is named by its caller); calls is   *)
(* the record of the invocations of the batch function.  The               *)
(* delay batchDelay is a field no code reads: nothing flushes on time.     *)
(* Each caller is a goroutine in Load:                                     *)
(*   "idle" -> ("returned" | "execute" | "wait"), "execute" -> "wait",     *)
(*   "wait" -> "returned".                                                 *)
(***************************************************************************)
MaxBatch == 2
MaxCallers == 3

Callers == 1..MaxCallers
LoadKeys == {"k1", "k2"}

\* NewDataLoader(batchFn, WithMaxBatch(maxBatch))
NewDataLoader(maxBatch) ==
    [cache |-> [k \in {} |-> <<>>], batch |-> <<>>, batchErr |-> <<>>, maxBatch |-> maxBatch]

\* no result sent on a channel yet
NoResult == [data |-> <<"none">>, err |-> <<"none">>]

\* what a batch function returns for a batch of keys: a value for every key
\* and no error; no value and an error for every key; or, both slices being
\* as long as the batch, a nil value and an error for every key
BatchOutcomes == {"data", "error", "nil and error"}

batchFn(keys, outcome) ==
    [results |-> CASE outcome = "data" -> [i \in 1..Len(keys) |-> <<"value", keys[i]>>]
                   [] outcome = "error" -> <<>>
                   [] OTHER -> [i \in 1..Len(keys) |-> <<"nil">>],
     errs |-> IF outcome = "data" THEN <<>>
              ELSE [i \in 1..Len(keys) |-> <<"error", keys[i]>>]]

\* the last index of a key in a batch: a later cache write replaces an earlier
LastIndexOf(keys, k) == CHOOSE i \in 1..Len(keys) : keys[i] = k /\ \A j \in (i + 1)..Len(keys) : keys[j] # k

\* executeBatch: the batch is taken and reset, batchFn is called; for every
\* channel i of the batch: data and the cache entry of keys[i] are results[i]
\* when i < len(results), err is errs[i] when i < len(errs) and it is not
\* nil, and the result is sent on the channel
executeBatch(dl, callers, outcome) ==
    IF Len(dl.batch) = 0 THEN [dl |-> dl, callers |-> callers]
    ELSE
      LET keys == dl.batch
          channels == dl.batchErr
          r == batchFn(keys, outcome)
          written == {keys[i] : i \in {j \in 1..Len(keys) : j <= Len(r.results)}}
      IN  [dl |-> [dl EXCEPT !.batch = <<>>, !.batchErr = <<>>,
                             !.cache = [k \in DOMAIN dl.cache \cup written |->
                                          IF k \in written
                                          THEN r.results[LastIndexOf(keys, k)]
                                          ELSE dl.cache[k]]],
           callers |-> [p \in DOMAIN callers |->
                          IF \E i \in 1..Len(channels) : channels[i] = p
                          THEN LET i == CHOOSE i \in 1..Len(channels) : channels[i] = p
                               IN  [callers[p] EXCEPT !.ch =
                                      [data |-> IF i <= Len(r.results) THEN r.results[i]
                                                ELSE <<"nil">>,
                                       err |-> IF i <= Len(r.errs) THEN r.errs[i]
                                               ELSE <<"nil">>]]
                          ELSE callers[p]]]

\* the loader is made, no caller is in Load
InitLoad ==
    /\ marshaler = NewPostgreSQLMarshaler
    /\ issued = <<>>
    /\ conv = NoCall
    /\ coll = NoCollect
    /\ exec = NoExecute
    /\ \E maxBatch \in 1..MaxBatch :
         procs = [dl |-> NewDataLoader(maxBatch),
                  calls |-> <<>>,
                  callers |-> [p \in Callers |->
                                 [pc |-> "idle", key |-> "", ch |-> NoResult,
                                  result |-> NoResult]]]

\* Load up to its wait: a cached key returns at once; any other key joins the
\* batch with a new channel, and the caller goes on to executeBatch when the
\* batch is full
LoadCall(p) ==
    /\ "dl" \in DOMAIN procs /\ procs.callers[p].pc = "idle"
    /\ \E key \in LoadKeys :
         IF key \in DOMAIN procs.dl.cache
         THEN procs' = [procs EXCEPT
                          !.callers[p].pc = "returned", !.callers[p].key = key,
                          !.callers[p].result = [data |-> procs.dl.cache[key], err |-> <<"nil">>]]
         ELSE procs' = [procs EXCEPT
                          !.dl.batch = Append(@, key),
                          !.dl.batchErr = Append(@, p),
                          !.callers[p].key = key,
                          !.callers[p].pc =
                             IF Len(procs.dl.batch) + 1 >= procs.dl.maxBatch
                             THEN "execute" ELSE "wait"]
    /\ UNCHANGED <<marshaler, issued, conv, collVars, execVars>>

\* executeBatch returns to Load; procs.calls records what batchFn was called
\* with: the keys, the cache at that moment and the outcome
BatchExecuted(p, outcome, r) ==
    procs' = [procs EXCEPT
                !.dl = r.dl,
                !.callers = [r.callers EXCEPT ![p].pc = "wait"],
                !.calls = IF Len(procs.dl.batch) = 0 THEN @
                          ELSE Append(@, [keys |-> procs.dl.batch,
                                          cached |-> DOMAIN procs.dl.cache,
                                          outcome |-> outcome])]

\* dl.executeBatch(ctx) of the caller that filled the batch
ExecuteBatchCall(p) ==
    /\ "dl" \in DOMAIN procs /\ procs.callers[p].pc = "execute"
    /\ \E outcome \in BatchOutcomes :
         BatchExecuted(p, outcome, executeBatch(procs.dl, procs.callers, outcome))
    /\ UNCHANGED <<marshaler, issued, conv, collVars, execVars>>

\* result := <-resultCh; return result.data, result.err
ReceiveResult(p) ==
    /\ "dl" \in DOMAIN procs /\ procs.callers[p].pc = "wait"
    /\ procs.callers[p].ch # NoResult
    /\ procs' = [procs EXCEPT !.callers[p].pc = "returned",
                              !.callers[p].result = procs.callers[p].ch]
    /\ UNCHANGED <<marshaler, issued, conv, collVars, execVars>>

NextLoad ==
    \E p \in Callers :
       \/ LoadCall(p)
       \/ ExecuteBatchCall(p)
       \/ ReceiveResult(p)

\* a goroutine inside Load is scheduled again; whether another Load is ever
\* called is up to the resolvers
LoadFairness ==
    \A p \in Callers : WF_vars(ExecuteBatchCall(p)) /\ WF_vars(ReceiveResult(p))

SpecLoad == InitLoad /\ [][NextLoad]_vars /\ LoadFairness

\* C20: every Load call eventually returns a value or an error, also when
\* fewer than maxBatch keys are ever requested.
C20_EveryLoadReturns ==
    \A p \in Callers :
       (procs.callers[p].pc \in {"wait", "execute"}) ~> (procs.callers[p].pc = "returned")


\* C21: every invocation of the batch function gets at most maxBatch keys, no
\* key twice and no key that is in the cache.
C21_BatchesBoundedAndDistinct ==
    \A n \in 1..Len(procs.calls) :
       LET call == procs.calls[n]
       IN  /\ Len(call.keys) <= procs.dl.maxBatch
           /\ \A i, j \in 1..Len(call.keys) : i # j => call.keys[i] # call.keys[j]
           /\ \A i \in 1..Len(call.keys) : call.keys[i] \notin call.cached

\* C30: a key the batch function reported an error for is not in the cache
\* afterwards, and no Load of it returns a cached value with a nil error.
C30_FailedKeyNotCached ==
    /\ \A n \in 1..Len(procs.calls) :
          procs.calls[n].outcome # "data" =>
             \A i \in 1..Len(procs.calls[n].keys) :
                \/ procs.calls[n].keys[i] \notin DOMAIN procs.dl.cache
                \/ \E m \in (n + 1)..Len(procs.calls) :
                      /\ procs.calls[m].outcome = "data"
                      /\ \E j \in 1..Len(procs.calls[m].keys) :
                            procs.calls[m].keys[j] = procs.calls[n].keys[i]
    /\ \A p \in Callers :
          procs.callers[p].pc = "returned" =>
             \/ procs.callers[p].result.err # <<"nil">>
             \/ procs.callers[p].result.data = <<"value", procs.callers[p].key>>


\* C26: in every result of ConvertToSelect, ConvertToUpdate and
\* ConvertToDelete the placeholders of the text are exactly $1..$len(Params),
\* each once: every value of Params is referenced by a placeholder.
C26_PlaceholdersAreParams ==
    (conv.done /\ conv.op \in {"select", "update", "delete"}) =>
       LET ph == PlaceholdersOf(conv.Query)
       IN  /\ Len(ph) = Len(conv.Params)
           /\ \A n \in 1..Len(conv.Params) :
                 Cardinality({i \in 1..Len(ph) : ph[i][2] = n}) = 1



\* the tokens that cannot begin a condition
ConditionStops ==
    {Kw("AND"), Kw("OR"), Kw(")"), Kw("RETURNING"), Kw("GROUP BY"), Kw("HAVING"),
     Kw("ORDER BY"), Kw("LIMIT"), Kw("OFFSET")}

\* no condition begins after position k of q
NothingAfter(q, k) == k = Len(q) \/ q[k + 1] \in ConditionStops

\* no condition ends before position k of q
NothingBefore(q, k) ==
    k = 1 \/ q[k - 1] \in {Kw("WHERE"), Kw("AND"), Kw("OR"), Kw("("), Kw("NOT (")}

\* C27: in every statement of ConvertToSelect, ConvertToUpdate and
\* ConvertToDelete a WHERE keyword is followed by a condition, and no AND,
\* OR or NOT has an empty operand.
C27_NoEmptyCondition ==
    (conv.done /\ conv.op \in {"select", "update", "delete"}) =>
       \A k \in 1..Len(conv.Query) :
          LET q == conv.Query
          IN  /\ q[k] \in {Kw("WHERE"), Kw("NOT (")} => ~NothingAfter(q, k)
              /\ q[k] \in {Kw("AND"), Kw("OR")} =>
                    ~NothingAfter(q, k) /\ ~NothingBefore(q, k)


(***************************************************************************)
(* Specification of the column of one field in one statement.  Init draws  *)
(* the field of User, the override MapFieldToColumn registered for it (or  *)
(* none) and where the statement names the field besides its SELECT or     *)
(* RETURNING list; the action converts the statement.                      *)
(* conv = [fieldName, override, use, done, Query].                         *)
(***************************************************************************)
\* the columns registered for the field; <<>> stands for no registration
OverrideColumns == {<<>>, n_name, n_title, n_user_name}

\* the statement and the place of the field in it
ColumnUses ==
    {<<"select", "where">>, <<"select", "where operator">>,
     <<"select", "orderBy">>, <<"select", "orderBy list">>,
     <<"update", "where">>, <<"update", "where operator">>,
     <<"delete", "where">>, <<"delete", "where operator">>}

InitColumns ==
    /\ marshaler = NewPostgreSQLMarshaler
    /\ issued = <<>>
    /\ procs = NoProcs
    /\ coll = NoCollect
    /\ exec = NoExecute
    /\ \E f \in {n_name, n_userName, n_age}, col \in OverrideColumns, use \in ColumnUses :
         conv = [fieldName |-> f, override |-> col, use |-> use, done |-> FALSE,
                 Query |-> <<>>]

\* NewSQLConverter(schema, dialect), then MapFieldToColumn("User", f, col) if
\* a column was registered
ColumnConverter ==
    LET c == [schema |-> Schema, tableMap |-> [k \in {} |-> <<>>],
              columnMap |-> [k \in {} |-> <<>>], joinConfig |-> [k \in {} |-> <<>>]]
    IN  IF conv.override = <<>> THEN c
        ELSE MapFieldToColumn(c, n_User, conv.fieldName, conv.override)

\* the filter on the field
ColumnFilter ==
    IF conv.use[2] = "where operator"
    THEN << <<conv.fieldName, VMap(<< <<"_gt", VInt(18)>> >>)>> >>
    ELSE << <<conv.fieldName, VInt(18)>> >>

\* the arguments of the select
ColumnArguments ==
    CASE conv.use[2] = "orderBy" ->
           "orderBy" :> VMap(<< <<"field", VStr(conv.fieldName)>> >>)
      [] conv.use[2] = "orderBy list" ->
           "orderBy" :> VList(<< VMap(<< <<"field", VStr(conv.fieldName)>> >>) >>)
      [] OTHER -> "where" :> VMap(ColumnFilter)

ReturnColumns(r) ==
    /\ conv' = [conv EXCEPT !.done = TRUE, !.Query = r.Query]
    /\ marshaler' = r.m
    /\ UNCHANGED <<issued, concVars, collVars, execVars>>

\* ConvertToSelect, ConvertToUpdate or ConvertToDelete of a statement that
\* selects or returns the field and filters or orders by it
ConvertColumnCall ==
    /\ "override" \in DOMAIN conv /\ ~conv.done
    /\ ReturnColumns(
          CASE conv.use[1] = "select" ->
                 ConvertToSelect(ColumnConverter, marshaler,
                    [ReturnType |-> Named(n_User),
                     Selection |-> SelectionOf(<<Leaf(conv.fieldName)>>, FALSE),
                     Arguments |-> ColumnArguments])
            [] conv.use[1] = "update" ->
                 ConvertToUpdate(ColumnConverter, marshaler, n_User, ColumnFilter,
                    << <<n_id, VInt(65)>> >>, <<conv.fieldName>>,
                    <<QuoteIdentifier(getColumnName(ColumnConverter, n_User, n_id))>>)
            [] OTHER ->
                 ConvertToDelete(ColumnConverter, marshaler, n_User, ColumnFilter,
                    <<conv.fieldName>>))

NextColumns == ConvertColumnCall

SpecColumns == InitColumns /\ [][NextColumns]_vars

\* the first quoted identifier of q after the first token kw
FirstIdentifierAfter(q, kw) ==
    LET from == FindFrom(q, kw, 1)
        k == CHOOSE k \in (from + 1)..Len(q) :
                /\ q[k][1] = "id"
                /\ \A j \in (from + 1)..(k - 1) : q[j][1] # "id"
    IN  q[k]

\* C28: the column a statement uses for a field in its WHERE condition or
\* its ORDER BY is the column it uses for the field in its SELECT list or
\* its RETURNING list, with and without an override of MapFieldToColumn.
C28_OneColumnPerField ==
    ("override" \in DOMAIN conv /\ conv.done) =>
       FirstIdentifierAfter(conv.Query,
          IF conv.use[2] \in {"orderBy", "orderBy list"} THEN Kw("ORDER BY") ELSE Kw("WHERE"))
       = FirstIdentifierAfter(conv.Query,
            IF conv.use[1] = "select" THEN Kw("SELECT") ELSE Kw("RETURNING"))


=============================================================================
